---- MODULE Spec2Model ----
(***************************************************************************)
(* Model of the trade-decision pipeline of the quant engine:               *)
(*   core/risk_manager.rs, core/order_manager.rs, core/position_sizer.rs,  *)
(*   core/kelly_criterion.rs and backtest/engine.rs, backtest/trade.rs.    *)
(*                                                                         *)
(* Numbers.  The program computes in f64.  The model computes in exact     *)
(* integer arithmetic: money is a whole number of dollars, a percentage    *)
(* is held in basis points (1 bp = 0.01 percent), and every comparison of  *)
(* a quotient is done by cross-multiplication, with the IEEE outcome of a  *)
(* division by zero spelled out.  floor() is \div on non-negative values.  *)
(***************************************************************************)
EXTENDS Integers, Sequences, FiniteSets, TLC

VARIABLES
    risk_manager,   \* RiskManager {config, day_start_value, current_value, consecutive_losses}
    rm_log,         \* history: the record_trade / reset_daily calls made on risk_manager
    rm_out,         \* the last check_trade call on risk_manager: its arguments and result
    cash,           \* OrderManager.cash
    positions,      \* OrderManager.positions: HashMap<Symbol, Position>
    trade_history,  \* OrderManager.trade_history: Vec<Trade>
    sizer,          \* OrderManager.sizer: PositionSizer {portfolio_value, max_risk_per_trade_pct}
    config,         \* OrderManager.config: OrderManagerConfig
    om_out,         \* the last OrderManager call: its arguments and what it returned
    position_sizer, \* IntegratedPositionSizer {kelly, risk_manager, portfolio_value}
    ps_out,         \* the last calculate_position call: its arguments and what it returned
    backtester,     \* Backtester {config, risk_manager}
    capital,        \* run, run_with_signals: let mut capital
    equity_curve,   \* run, run_with_signals: let mut equity_curve
    open_trades,    \* run, run_with_signals: let mut open_trades: HashMap<Symbol, BacktestTrade>
    closed_trades,  \* run, run_with_signals: let mut closed_trades: Vec<BacktestTrade>
    total_signals,  \* run, run_with_signals: the signals counted so far
    rejected_signals, \* run, run_with_signals: let mut rejected_signals
    bt_pc,          \* run, run_with_signals: "loop" in the for loop, "returned" after the return
    kelly,          \* KellyCriterion {config, stats}
    kelly_log,      \* history: the pnl of every record_trade call made on kelly
    kelly_out,      \* the last kelly_pct / position_size call on kelly: arguments and result
    aggregator,     \* SignalAggregator {strategy, min_confidence}
    all_signals,    \* collect_signals: let mut all_signals: Vec<Signal>
    aggregated_signals, \* run_cycle: the Vec<Signal> the last aggregate call returned
    backtest_trade, \* a BacktestTrade followed from its creation to its close
    trade_call,     \* the last call made on backtest_trade: its arguments
    historical_data, \* run: historical_data, the mid prices of each symbol's series
    symbols,        \* run: symbols, the symbols to track; EngineConfig.symbols
    alphas,         \* Backtester.alphas, TradingEngine.alphas: what generate_signals returns
    run_i,          \* run: the time step i the for loop is at
    run_out,        \* run: the Result returned, "Ok" or "Err"
    engine_stats,   \* TradingEngine.stats: EngineStats
    ticks,          \* history: the ticks of the interval TradingEngine::run has processed
    cycle_out,      \* the last run_cycle: what it returned and fetched, the positions
                    \* held before it and what each execution logged
    metrics_call,   \* the last calculate_max_drawdown: its equity curve and its result
    quantity_call   \* the last Quantity constructor called: its argument and its result

rm_vars == <<risk_manager, rm_log, rm_out>>
om_vars == <<cash, positions, trade_history, sizer, config, om_out>>
ps_vars == <<position_sizer, ps_out>>
bt_vars == <<backtester, capital, equity_curve, open_trades, closed_trades,
             total_signals, rejected_signals, bt_pc>>
kc_vars == <<kelly, kelly_log, kelly_out>>
ag_vars == <<aggregator, all_signals, aggregated_signals>>
tr_vars == <<backtest_trade, trade_call>>
run_vars == <<historical_data, symbols, alphas, run_i, run_out>>
en_vars == <<engine_stats, ticks, cycle_out>>
fn_vars == <<metrics_call, quantity_call>>
vars == <<rm_vars, om_vars, ps_vars, bt_vars, kc_vars, ag_vars, tr_vars, run_vars, en_vars, fn_vars>>

(***************************************************************************)
(* Bounds of the model                                                     *)
(***************************************************************************)
MaxLog == 2          \* record_trade / reset_daily calls followed in rm_log
MaxOrders == 1       \* positions an OrderManager opens in one behaviour
MaxTrades == 3       \* trades recorded on an IntegratedPositionSizer
MaxSignals == 3      \* signals given to one run_with_signals

(***************************************************************************)
(* Value types                                                             *)
(***************************************************************************)
None == "None"

\* Option<Price>::None: Price::new admits no value <= 0.
NoPrice == 0

\* The symbols the model trades: two of the broad_market group and one of no group.
Symbols == {"SPY", "IWM", "AAPL"}

RECURSIVE FracGE(_, _, _, _)
\* a/b >= c/d, for a, c >= 0 and b, d > 0: the whole parts decide, or else
\* the remainders do, the other way round.
FracGE(a, b, c, d) ==
    IF a \div b # c \div d THEN a \div b > c \div d
    ELSE IF c % d = 0 THEN TRUE
    ELSE IF a % b = 0 THEN FALSE
    ELSE FracGE(d, c % d, b, a % b)

\* a/b as a percentage compared with a percentage held in basis points,
\* for b >= 0, as f64 evaluates (a / b) * 100.0 >= pct: a/0 is +inf, -inf or NaN.
PctGE(a, b, bp) ==
    IF b <= 0 THEN a > 0
    ELSE IF a < 0 \/ bp < 0 THEN a * 10000 >= bp * b
    ELSE FracGE(a, b, bp, 10000)

PctGT(a, b, bp) ==
    IF b <= 0 THEN a > 0
    ELSE IF a < 0 \/ bp < 0 THEN a * 10000 > bp * b
    ELSE ~FracGE(bp, 10000, a, b)

RECURSIVE SumOver(_, _)
\* Sum of f[s] over the set S (S a subset of DOMAIN f).
SumOver(f, S) ==
    IF S = {} THEN 0
    ELSE LET s == CHOOSE x \in S : TRUE
         IN  f[s] + SumOver(f, S \ {s})

(***************************************************************************)
(* core/risk_manager.rs                                                    *)
(***************************************************************************)
\* RiskManager::new: the two static correlation groups.
correlation_groups ==
    [tech_etf     |-> {"QQQ", "XLK"},
     broad_market |-> {"SPY", "IWM", "DIA"}]

\* RiskManagerConfig::default, for a 10,000 dollar portfolio.
RiskManagerConfig_default ==
    [max_risk_per_trade_pct       |-> 50,
     max_daily_drawdown_pct       |-> 500,
     max_correlation_exposure_pct |-> 5000,
     max_consecutive_losses       |-> 3,
     emergency_stop_value         |-> 5000]

RiskManager_new(cfg, initial_value) ==
    [config             |-> cfg,
     day_start_value    |-> initial_value,
     current_value      |-> initial_value,
     consecutive_losses |-> 0]

update_portfolio_value(rm, value) ==
    [rm EXCEPT !.current_value = value]

\* Mutant: only the counter of consecutive losses is reset.
reset_daily_counter_only(rm) ==
    [rm EXCEPT !.consecutive_losses = 0]

reset_daily(rm) ==
    [rm EXCEPT !.day_start_value = rm.current_value,
               !.consecutive_losses = 0]

\* Mutant: a break-even trade counted as a loss.
record_trade_zero_is_loss(rm, pnl) ==
    IF pnl <= 0
    THEN [rm EXCEPT !.consecutive_losses = rm.consecutive_losses + 1]
    ELSE [rm EXCEPT !.consecutive_losses = 0]

\* Mutant: recording a trade also re-anchors the drawdown baseline.
record_trade_reanchors(rm, pnl) ==
    IF pnl < 0
    THEN [rm EXCEPT !.consecutive_losses = rm.consecutive_losses + 1,
                    !.day_start_value = rm.current_value]
    ELSE [rm EXCEPT !.consecutive_losses = 0,
                    !.day_start_value = rm.current_value]

record_trade(rm, pnl) ==
    IF pnl < 0
    THEN [rm EXCEPT !.consecutive_losses = rm.consecutive_losses + 1]
    ELSE [rm EXCEPT !.consecutive_losses = 0]

\* check_correlation_exposure: TRUE when a violation is returned.
check_correlation_exposure(rm, new_symbol, new_position_value, open_positions) ==
    \E g \in DOMAIN correlation_groups :
        /\ new_symbol \in correlation_groups[g]
        /\ LET held == correlation_groups[g] \cap DOMAIN open_positions
               group_exposure == new_position_value + SumOver(open_positions, held)
           IN  PctGT(group_exposure, rm.current_value,
                     rm.config.max_correlation_exposure_pct)

\* Mutant: the emergency stop trips only strictly below the floor.
emergency_stop_strict(rm) ==
    rm.current_value < rm.config.emergency_stop_value

\* Check 1 of check_trade.
emergency_stop(rm) ==
    rm.current_value <= rm.config.emergency_stop_value

\* Mutant: no capital-sufficiency check.
insufficient_capital_unchecked(available_cash, position_value) == FALSE

\* Check 6 of check_trade.
insufficient_capital(available_cash, position_value) ==
    available_cash < position_value

\* Mutant: capital sufficiency tested before the position count.
check_trade_capital_first(rm, symbol, position_value, risk_amount, open_positions, max_positions, available_cash) ==
    IF emergency_stop(rm)
        THEN "EmergencyStop"
    ELSE IF PctGE(rm.day_start_value - rm.current_value, rm.day_start_value,
                  rm.config.max_daily_drawdown_pct)
        THEN "MaxDrawdownReached"
    ELSE IF rm.consecutive_losses >= rm.config.max_consecutive_losses
        THEN "ConsecutiveLosses"
    ELSE IF PctGT(risk_amount, rm.current_value, rm.config.max_risk_per_trade_pct)
        THEN "ExcessiveRisk"
    ELSE IF insufficient_capital(available_cash, position_value)
        THEN "InsufficientCapital"
    ELSE IF Cardinality(DOMAIN open_positions) >= max_positions
        THEN "MaxPositionsReached"
    ELSE IF check_correlation_exposure(rm, symbol, position_value, open_positions)
        THEN "CorrelationExposure"
    ELSE "Approved"

\* check_trade: "Approved", or the kind of the violation it is Rejected with.
check_trade(rm, symbol, position_value, risk_amount, open_positions, max_positions, available_cash) ==
    IF emergency_stop(rm)
        THEN "EmergencyStop"
    ELSE IF PctGE(rm.day_start_value - rm.current_value, rm.day_start_value,
                  rm.config.max_daily_drawdown_pct)
        THEN "MaxDrawdownReached"
    ELSE IF rm.consecutive_losses >= rm.config.max_consecutive_losses
        THEN "ConsecutiveLosses"
    ELSE IF PctGT(risk_amount, rm.current_value, rm.config.max_risk_per_trade_pct)
        THEN "ExcessiveRisk"
    ELSE IF Cardinality(DOMAIN open_positions) >= max_positions
        THEN "MaxPositionsReached"
    ELSE IF insufficient_capital(available_cash, position_value)
        THEN "InsufficientCapital"
    ELSE IF check_correlation_exposure(rm, symbol, position_value, open_positions)
        THEN "CorrelationExposure"
    ELSE "Approved"

(***************************************************************************)
(* core/order_manager.rs                                                   *)
(***************************************************************************)
PositionSizer_new(portfolio_value, max_risk_pct) ==
    [portfolio_value |-> portfolio_value, max_risk_per_trade_pct |-> max_risk_pct]

\* PositionSizer::calculate_size: [ok, error, shares].
\*   risk_dollars = portfolio_value * (max_risk_per_trade_pct / 100)
\*   shares       = floor(risk_dollars / |entry - stop|)
calculate_size(sz, entry_price, stop_loss) ==
    LET stop_distance == IF entry_price >= stop_loss THEN entry_price - stop_loss
                         ELSE stop_loss - entry_price
        shares == (sz.portfolio_value * sz.max_risk_per_trade_pct)
                      \div (10000 * stop_distance)
    IN  IF stop_loss = NoPrice
            THEN [ok |-> FALSE, error |-> "StopLossRequired", shares |-> 0]
        ELSE IF stop_distance = 0
            THEN [ok |-> FALSE, error |-> "StopTooClose", shares |-> 0]
        ELSE IF shares <= 0
            THEN [ok |-> FALSE, error |-> "SizeTooSmall", shares |-> 0]
        ELSE [ok |-> TRUE, error |-> None, shares |-> shares]

\* The OrderManager as one value.
Self == [cash |-> cash, positions |-> positions, trade_history |-> trade_history,
         risk_manager |-> risk_manager]

RECURSIVE MarketValue(_, _)
\* Sum over the symbols S of current_price * quantity.
MarketValue(pos, S) ==
    IF S = {} THEN 0
    ELSE LET s == CHOOSE x \in S : TRUE
         IN  pos[s].current_price * pos[s].quantity + MarketValue(pos, S \ {s})

\* OrderManager::portfolio_value
portfolio_value(self) ==
    self.cash + MarketValue(self.positions, DOMAIN self.positions)

\* Position::stop_loss_hit, Position::take_profit_hit
stop_loss_hit(p)   == p.stop_loss # NoPrice /\ p.current_price <= p.stop_loss
take_profit_hit(p) == p.take_profit # NoPrice /\ p.current_price >= p.take_profit

\* Position::unrealized_pnl
unrealized_pnl(p) == (p.current_price - p.entry_price) * p.quantity

\* Mutant: the open-position map is not consulted.
has_position_unchecked(self, symbol) == FALSE

\* execute_signal's first test: a position is already held in the symbol.
has_position(self, symbol) == symbol \in DOMAIN self.positions

\* What a call returned when it returned no order.
NoOrder == [status |-> None, side |-> None, quantity |-> 0, filled_price |-> NoPrice]

\* Mutant: cash is debited before the signal's action is examined.
execute_order_debit_first(checked, cfg, signal, current_price, quantity) ==
    LET debited == [checked EXCEPT !.cash = checked.cash - current_price * quantity]
    IN  IF signal.action \notin {"Buy", "Sell"}
            THEN [self |-> debited, result |-> "Err", error |-> "InvalidAction",
                  order |-> NoOrder]
        ELSE IF cfg.paper_trading
            THEN [self   |-> [debited EXCEPT
                                !.positions =
                                    [s \in DOMAIN checked.positions \cup {signal.symbol} |->
                                        IF s = signal.symbol
                                        THEN [quantity      |-> quantity,
                                              entry_price   |-> current_price,
                                              current_price |-> current_price,
                                              stop_loss     |-> signal.stop_loss,
                                              take_profit   |-> signal.take_profit]
                                        ELSE checked.positions[s]]],
                  result |-> "Ok", error |-> None,
                  order  |-> [status |-> "Filled", side |-> signal.action,
                              quantity |-> quantity, filled_price |-> current_price]]
        ELSE [self   |-> checked,
              result |-> "Ok", error |-> None,
              order  |-> [status |-> "Pending", side |-> signal.action,
                          quantity |-> quantity, filled_price |-> NoPrice]]

\* The tail of execute_signal, after the risk check has approved: the order
\* side is taken from the signal's action, the market order is created and,
\* in paper trading, filled, the position created and cash debited.
execute_order(checked, cfg, signal, current_price, quantity) ==
    LET side == signal.action
        position == [quantity      |-> quantity,
                     entry_price   |-> current_price,
                     current_price |-> current_price,
                     stop_loss     |-> signal.stop_loss,
                     take_profit   |-> signal.take_profit]
    IN  IF side \notin {"Buy", "Sell"}
            THEN [self |-> checked, result |-> "Err", error |-> "InvalidAction",
                  order |-> NoOrder]
        ELSE IF cfg.paper_trading
            THEN [self   |-> [checked EXCEPT
                                !.cash = checked.cash - current_price * quantity,
                                !.positions =
                                    [s \in DOMAIN checked.positions \cup {signal.symbol} |->
                                        IF s = signal.symbol THEN position
                                        ELSE checked.positions[s]]],
                  result |-> "Ok", error |-> None,
                  order  |-> [status |-> "Filled", side |-> side, quantity |-> quantity,
                              filled_price |-> current_price]]
        ELSE [self   |-> checked,
              result |-> "Ok", error |-> None,
              order  |-> [status |-> "Pending", side |-> side, quantity |-> quantity,
                          filled_price |-> NoPrice]]

\* OrderManager::execute_signal on `self`: [self, result, error, order].
execute_signal(self, cfg, sz, signal, current_price) ==
    LET size == calculate_size(sz, current_price, signal.stop_loss)
        quantity == size.shares
        position_value == current_price * quantity
        risk_amount == (IF current_price >= signal.stop_loss
                        THEN current_price - signal.stop_loss
                        ELSE signal.stop_loss - current_price) * quantity
        position_values ==
            [s \in DOMAIN self.positions |->
                self.positions[s].current_price * self.positions[s].quantity]
        rm1 == update_portfolio_value(self.risk_manager, portfolio_value(self))
        risk_result == check_trade(rm1, signal.symbol, position_value, risk_amount,
                                   position_values, cfg.max_positions, self.cash)
        checked == [self EXCEPT !.risk_manager = rm1]
        Err(st, e) == [self |-> st, result |-> "Err", error |-> e, order |-> NoOrder]
    IN  IF has_position(self, signal.symbol)
            THEN Err(self, "AlreadyHavePosition")
        ELSE IF ~size.ok
            THEN Err(self, size.error)
        ELSE IF risk_result # "Approved"
            THEN Err(checked, risk_result)
        ELSE execute_order(checked, cfg, signal, current_price, quantity)

\* OrderManager::update_positions: snapshot maps some symbols to their last price.
update_positions(self, snapshot) ==
    [self EXCEPT !.positions =
        [s \in DOMAIN self.positions |->
            IF s \in DOMAIN snapshot
            THEN [self.positions[s] EXCEPT !.current_price = snapshot[s]]
            ELSE self.positions[s]]]

\* Mutant: the realized P&L is not recorded with the risk manager.
close_position_unrecorded(self, symbol, reason) ==
    LET position == self.positions[symbol]
        proceeds == position.current_price * position.quantity
        remaining == [s \in DOMAIN self.positions \ {symbol} |-> self.positions[s]]
        closed == [self EXCEPT !.positions = remaining,
                               !.cash = self.cash + proceeds]
        closing == [symbol |-> symbol, side |-> "Buy", quantity |-> position.quantity,
                    entry_price |-> position.entry_price,
                    exit_price |-> position.current_price,
                    pnl |-> unrealized_pnl(position), close_reason |-> reason]
    IN  [closed EXCEPT
            !.risk_manager = update_portfolio_value(self.risk_manager,
                                                    portfolio_value(closed)),
            !.trade_history = Append(self.trade_history, closing)]

\* Mutant: the cash is credited with the cost of the position, not its proceeds.
close_position_cost_returned(self, symbol, reason) ==
    LET position == self.positions[symbol]
        pnl == unrealized_pnl(position)
        proceeds == position.entry_price * position.quantity
        remaining == [s \in DOMAIN self.positions \ {symbol} |-> self.positions[s]]
        closed == [self EXCEPT !.positions = remaining,
                               !.cash = self.cash + proceeds]
        closing == [symbol |-> symbol, side |-> "Buy", quantity |-> position.quantity,
                    entry_price |-> position.entry_price,
                    exit_price |-> position.current_price,
                    pnl |-> pnl, close_reason |-> reason]
    IN  [closed EXCEPT
            !.risk_manager = update_portfolio_value(record_trade(self.risk_manager, pnl),
                                                    portfolio_value(closed)),
            !.trade_history = Append(self.trade_history, closing)]

\* Mutant: the realized P&L is recorded with the risk manager twice.
close_position_recorded_twice(self, symbol, reason) ==
    LET position == self.positions[symbol]
        pnl == unrealized_pnl(position)
        proceeds == position.current_price * position.quantity
        remaining == [s \in DOMAIN self.positions \ {symbol} |-> self.positions[s]]
        closed == [self EXCEPT !.positions = remaining,
                               !.cash = self.cash + proceeds]
        trade == [symbol |-> symbol, side |-> "Buy", quantity |-> position.quantity,
                  entry_price |-> position.entry_price,
                  exit_price |-> position.current_price,
                  pnl |-> pnl, close_reason |-> reason]
    IN  [closed EXCEPT
            !.risk_manager = update_portfolio_value(
                                 record_trade(record_trade(self.risk_manager, pnl), pnl),
                                 portfolio_value(closed)),
            !.trade_history = Append(self.trade_history, trade)]

\* OrderManager::close_position, for a symbol that is held.
close_position(self, symbol, reason) ==
    LET position == self.positions[symbol]
        pnl == unrealized_pnl(position)
        proceeds == position.current_price * position.quantity
        remaining == [s \in DOMAIN self.positions \ {symbol} |-> self.positions[s]]
        closed == [self EXCEPT !.positions = remaining,
                               !.cash = self.cash + proceeds]
        trade == [symbol |-> symbol, side |-> "Buy", quantity |-> position.quantity,
                  entry_price |-> position.entry_price,
                  exit_price |-> position.current_price,
                  pnl |-> pnl, close_reason |-> reason]
    IN  [closed EXCEPT
            !.risk_manager = update_portfolio_value(record_trade(self.risk_manager, pnl),
                                                    portfolio_value(closed)),
            !.trade_history = Append(self.trade_history, trade)]

\* Mutant: the take-profit tested before the stop-loss.
to_close_target_first(self) ==
    { <<s, IF take_profit_hit(self.positions[s]) THEN "TakeProfit" ELSE "StopLoss">> :
        s \in { x \in DOMAIN self.positions :
                    stop_loss_hit(self.positions[x]) \/ take_profit_hit(self.positions[x]) } }

\* The first loop of check_exits: the positions to close, with the reason of each.
to_close(self) ==
    { <<s, IF stop_loss_hit(self.positions[s]) THEN "StopLoss" ELSE "TakeProfit">> :
        s \in { x \in DOMAIN self.positions :
                    stop_loss_hit(self.positions[x]) \/ take_profit_hit(self.positions[x]) } }

RECURSIVE close_all(_, _)
\* The second loop of check_exits, closing in the order `order`.
close_all(self, order) ==
    IF order = <<>> THEN self
    ELSE close_all(close_position(self, order[1][1], order[1][2]), Tail(order))

\* The orders a HashMap may iterate the set S in.
Orders(S) ==
    { o \in [1..Cardinality(S) -> S] : \A i, j \in 1..Cardinality(S) : i # j => o[i] # o[j] }

(***************************************************************************)
(* Exact fractions, for the quotients core/kelly_criterion.rs forms: a     *)
(* pair <<n, d>> with d > 0, in lowest terms.                              *)
(***************************************************************************)
RECURSIVE GCD(_, _)
GCD(a, b) == IF b = 0 THEN a ELSE GCD(b, a % b)

Abs(x) == IF x < 0 THEN -x ELSE x

Rat(n, d) ==
    LET g == GCD(Abs(n), d)
    IN  <<n \div g, d \div g>>

RatLT(x, y) == x[1] * y[2] < y[1] * x[2]

\* f64::max and f64::min
RatMax(x, y) == IF RatLT(x, y) THEN y ELSE x
RatMin(x, y) == IF RatLT(y, x) THEN y ELSE x

\* floor(x) as u64: a negative value saturates to 0.
FloorU64(n, d) == IF n < 0 THEN 0 ELSE n \div d

(***************************************************************************)
(* core/kelly_criterion.rs                                                 *)
(***************************************************************************)
\* KellyConfig::default: kelly_fraction and min_win_rate in hundredths,
\* the position percentages in basis points.
KellyConfig_default ==
    [kelly_fraction       |-> 50,
     min_win_rate         |-> 40,
     max_position_pct     |-> 1000,
     min_position_pct     |-> 50,
     min_trades_for_kelly |-> 20,
     default_position_pct |-> 200]

\* TradingStats::new
TradingStats_new ==
    [total_trades |-> 0, wins |-> 0, losses |-> 0,
     total_win_amount |-> 0, total_loss_amount |-> 0]

\* TradingStats::record_trade
TradingStats_record_trade(stats, pnl) ==
    LET counted == [stats EXCEPT !.total_trades = @ + 1]
    IN  IF pnl > 0
            THEN [counted EXCEPT !.wins = @ + 1, !.total_win_amount = @ + pnl]
        ELSE IF pnl < 0
            THEN [counted EXCEPT !.losses = @ + 1, !.total_loss_amount = @ + Abs(pnl)]
        ELSE counted

\* KellyCriterion::with_config
KellyCriterion_with_config(cfg) == [config |-> cfg, stats |-> TradingStats_new]

\* Mutant: the number of trades is not looked at.
has_sufficient_data_uncounted(stats, min_trades) ==
    stats.wins > 0 /\ stats.losses > 0

\* TradingStats::has_sufficient_data
has_sufficient_data(stats, min_trades) ==
    stats.total_trades >= min_trades /\ stats.wins > 0 /\ stats.losses > 0

\* Option<f64>::None of kelly_pct
NoKelly == [some |-> FALSE, pct |-> <<0, 1>>]

\* KellyCriterion::kelly_pct: [some, pct], pct a fraction, in percent.
\*   p = wins / total,  q = 1 - p,  b = (W / wins) / (L / losses)
\*   (p*b - q) / b = (W*losses - (total - wins)*L) * wins / (total * W * losses)
\* with W = total_win_amount and L = total_loss_amount.
kelly_pct(k) ==
    LET st == k.stats
        W == st.total_win_amount
        L == st.total_loss_amount
        kelly_raw == Rat((W * st.losses - (st.total_trades - st.wins) * L) * st.wins,
                         st.total_trades * W * st.losses)
        kelly_adjusted(raw) == Rat(raw[1] * k.config.kelly_fraction, raw[2] * 100)
        positive(adjusted) ==
            IF adjusted[1] <= 0 THEN NoKelly
            ELSE [some |-> TRUE, pct |-> Rat(adjusted[1] * 100, adjusted[2])]
    IN  IF ~has_sufficient_data(st, k.config.min_trades_for_kelly)
            THEN NoKelly
        ELSE IF st.wins * 100 < k.config.min_win_rate * st.total_trades
            THEN NoKelly
        ELSE positive(kelly_adjusted(kelly_raw))

\* Option<Confidence>::None; a Confidence is held in hundredths, 0..100.
NoConfidence == -1

\* Mutant: the percentage is not clamped to the configured caps.
position_size_uncapped(k, value, signal_confidence) ==
    LET base_pct(kp) == IF kp.some THEN Rat(kp.pct[1] * 100, kp.pct[2])
                        ELSE <<k.config.default_position_pct, 1>>
        adjusted_pct(base) == IF signal_confidence # NoConfidence
                              THEN Rat(base[1] * signal_confidence, base[2] * 100)
                              ELSE base
        dollars(capped) == Rat(capped[1] * value, capped[2] * 10000)
    IN  dollars(adjusted_pct(base_pct(kelly_pct(k))))

\* KellyCriterion::position_size: dollars, as a fraction.
position_size(k, value, signal_confidence) ==
    LET \* in basis points
        base_pct(kp) == IF kp.some THEN Rat(kp.pct[1] * 100, kp.pct[2])
                        ELSE <<k.config.default_position_pct, 1>>
        adjusted_pct(base) == IF signal_confidence # NoConfidence
                              THEN Rat(base[1] * signal_confidence, base[2] * 100)
                              ELSE base
        capped_pct(adjusted) ==
            RatMin(RatMax(adjusted, <<k.config.min_position_pct, 1>>),
                   <<k.config.max_position_pct, 1>>)
        dollars(capped) == Rat(capped[1] * value, capped[2] * 10000)
    IN  dollars(capped_pct(adjusted_pct(base_pct(kelly_pct(k)))))

\* KellyCriterion::calculate_quantity
calculate_quantity(k, value, current_price, signal_confidence) ==
    LET shares(position_value) == FloorU64(position_value[1],
                                           position_value[2] * current_price)
    IN  shares(position_size(k, value, signal_confidence))

\* KellyCriterion::position_summary: the fields calculate_position reads.
position_summary(k, value, current_price, signal_confidence) ==
    [position_value |-> position_size(k, value, signal_confidence),
     quantity       |-> calculate_quantity(k, value, current_price, signal_confidence)]

(***************************************************************************)
(* core/position_sizer.rs                                                  *)
(***************************************************************************)
\* IntegratedPositionSizer::new
IntegratedPositionSizer_new(kelly_config, risk_config, initial_portfolio) ==
    [kelly           |-> KellyCriterion_with_config(kelly_config),
     risk_manager    |-> RiskManager_new(risk_config, initial_portfolio),
     portfolio_value |-> initial_portfolio]

\* IntegratedPositionSizer::update_portfolio
update_portfolio(ps, value) ==
    [ps EXCEPT !.portfolio_value = value,
               !.risk_manager = update_portfolio_value(ps.risk_manager, value)]

\* IntegratedPositionSizer::record_trade
IntegratedPositionSizer_record_trade(ps, pnl) ==
    [ps EXCEPT !.kelly.stats = TradingStats_record_trade(ps.kelly.stats, pnl),
               !.risk_manager = record_trade(ps.risk_manager, pnl)]

\* |current_price - stop_loss|
risk_per_share(signal, current_price) == Abs(current_price - signal.stop_loss)

\* Mutant: the reduced quantity is rounded up.
adjusted_quantity_rounded_up(ps, signal, current_price) ==
    LET cap == ps.risk_manager.config.max_risk_per_trade_pct * ps.portfolio_value
        per == IF signal.stop_loss # NoPrice
               THEN 10000 * risk_per_share(signal, current_price)
               ELSE 200 * current_price
    IN  IF per <= 0 \/ cap < 0 THEN 0
        ELSE (cap + per - 1) \div per

\* calculate_position, on ExcessiveRisk: the quantity that fits the cap
\*   max_risk_amount = (max_risk_pct / 100) * portfolio_value
\* with a stop-loss floor(max_risk_amount / risk_per_share), 0 if that
\* distance is not positive; without, floor((max_risk_amount / 0.02) / price).
adjusted_quantity(ps, signal, current_price) ==
    LET max_risk_pct == ps.risk_manager.config.max_risk_per_trade_pct
        with_stop(max_risk_amount) ==
            IF risk_per_share(signal, current_price) > 0
            THEN FloorU64(max_risk_amount[1],
                          max_risk_amount[2] * risk_per_share(signal, current_price))
            ELSE 0
        adjusted_value(max_risk_amount) ==
            Rat(max_risk_amount[1] * 50, max_risk_amount[2])
        without_stop(value) == FloorU64(value[1], value[2] * current_price)
    IN  IF signal.stop_loss # NoPrice
        THEN with_stop(Rat(max_risk_pct * ps.portfolio_value, 10000))
        ELSE without_stop(adjusted_value(Rat(max_risk_pct * ps.portfolio_value, 10000)))

\* The RiskManager with its dollar amounts multiplied by k: check_trade only
\* compares amounts and their quotients, so it decides the same on k times
\* the amounts.
Scaled(rm, k) ==
    [rm EXCEPT !.current_value = @ * k,
               !.day_start_value = @ * k,
               !.config.emergency_stop_value = @ * k]

\* IntegratedPositionSizer::calculate_position:
\* [result, approval_status, quantity, violation, risk_check].
calculate_position(ps, signal, current_price, open_positions, max_positions, available_cash) ==
    LET risk_amount(kelly_summary) ==
            IF signal.stop_loss # NoPrice
            THEN <<risk_per_share(signal, current_price) * kelly_summary.quantity, 1>>
            ELSE Rat(kelly_summary.position_value[1] * 2,
                     kelly_summary.position_value[2] * 100)
        \* the amounts as whole multiples of 1/k dollar
        risk_check(position_value, risk, k) ==
            check_trade(Scaled(ps.risk_manager, k), signal.symbol,
                        position_value[1] * (k \div position_value[2]),
                        risk[1] * (k \div risk[2]),
                        [s \in DOMAIN open_positions |-> open_positions[s] * k],
                        max_positions, available_cash * k)
        checked(position_value, risk) ==
            risk_check(position_value, risk,
                       (position_value[2] * risk[2]) \div GCD(position_value[2], risk[2]))
        decision(kelly_quantity, check, reduced) ==
            IF check = "Approved"
                THEN [result |-> "Ok", approval_status |-> "Approved",
                      quantity |-> kelly_quantity, violation |-> None,
                      risk_check |-> check]
            ELSE IF check = "ExcessiveRisk" /\ reduced > 0
                THEN [result |-> "Ok", approval_status |-> "Reduced",
                      quantity |-> reduced, violation |-> None,
                      risk_check |-> check]
            ELSE [result |-> "Err", approval_status |-> None,
                  quantity |-> 0, violation |-> check,
                  risk_check |-> check]
        sized(kelly_summary) ==
            decision(kelly_summary.quantity,
                     checked(kelly_summary.position_value, risk_amount(kelly_summary)),
                     adjusted_quantity(ps, signal, current_price))
    IN  sized(position_summary(ps.kelly, ps.portfolio_value, current_price,
                               signal.confidence))

(***************************************************************************)
(* backtest/trade.rs, backtest/engine.rs                                   *)
(*                                                                         *)
(* Money and prices of a backtest are whole numbers of 1/Unit dollar, fine *)
(* enough for the hundredths the replay takes of its amounts to be whole.  *)
(***************************************************************************)
Unit == 100000

\* BacktestTrade::new
BacktestTrade_new(symbol, action, entry_price, quantity, entry_time, commission, slippage) ==
    [symbol |-> symbol, action |-> action, entry_price |-> entry_price,
     exit_price |-> NoPrice, quantity |-> quantity, entry_time |-> entry_time,
     commission |-> commission,
     slippage |-> slippage, exit_reason |-> None, gross_pnl |-> 0, net_pnl |-> 0]

\* Mutant: the commission paid at the entry is left out of the net P&L.
close_exit_commission_only(trade, exit_price, exit_reason, exit_commission, exit_slippage) ==
    LET price_diff == IF trade.action = "Buy" THEN exit_price - trade.entry_price
                      ELSE IF trade.action = "Sell" THEN trade.entry_price - exit_price
                      ELSE 0
        gross == price_diff * trade.quantity
        total_slippage == trade.slippage + exit_slippage
    IN  [trade EXCEPT !.exit_price = exit_price,
                      !.exit_reason = exit_reason,
                      !.gross_pnl = gross,
                      !.net_pnl = gross - exit_commission - total_slippage]

\* BacktestTrade::close
close(trade, exit_price, exit_reason, exit_commission, exit_slippage) ==
    LET price_diff == IF trade.action = "Buy" THEN exit_price - trade.entry_price
                      ELSE IF trade.action = "Sell" THEN trade.entry_price - exit_price
                      ELSE 0
        gross == price_diff * trade.quantity
        total_commission == trade.commission + exit_commission
        total_slippage == trade.slippage + exit_slippage
    IN  [trade EXCEPT !.exit_price = exit_price,
                      !.exit_reason = exit_reason,
                      !.gross_pnl = gross,
                      !.net_pnl = gross - total_commission - total_slippage]

\* No BacktestTrade.
NoTrade == BacktestTrade_new(None, None, NoPrice, 0, 0, 0, 0)

\* BacktestTrade::is_open
is_open(t) == t.exit_price = NoPrice

\* Backtester::new
Backtester_new(cfg) ==
    [config |-> cfg, risk_manager |-> RiskManager_new(cfg.risk_config, cfg.initial_capital)]

\* Backtester::apply_slippage; slippage_pct in basis points.  Price::new
\* refuses a price that is not positive, and the price is then left as it was.
apply_slippage(bt, price, is_exit) ==
    LET slippage_amount == (price * bt.config.slippage_pct) \div 10000
        moved == IF is_exit THEN price - slippage_amount ELSE price + slippage_amount
    IN  IF moved > 0 THEN moved ELSE price

\* Backtester::calculate_position_size; confidence in hundredths.
\*   base_size_pct = default_position_size_pct * (0.5 + confidence * 0.5)
calculate_position_size(bt, cap, signal) ==
    LET plain == (cap * bt.config.default_position_size_pct) \div 100
    IN  IF bt.config.use_confidence_sizing
        THEN (plain * (100 + signal.confidence)) \div 200
        ELSE plain

\* The locals of run_with_signals as one value; idx is the index of the
\* signal the loop is at, the day current_time is set to.
Replay ==
    [capital |-> capital, equity_curve |-> equity_curve, open_trades |-> open_trades,
     closed_trades |-> closed_trades, rejected_signals |-> rejected_signals,
     idx |-> total_signals]

\* The map m without the key k, and with k bound to v.
Without(m, k) == [x \in DOMAIN m \ {k} |-> m[x]]
With(m, k, v) == [x \in DOMAIN m \cup {k} |-> IF x = k THEN v ELSE m[x]]

\* run_with_signals, loop body, first part: a position held in the signal's
\* symbol is closed at the signal's target price (the entry price if none).
close_existing(bt, st, signal) ==
    IF signal.symbol \notin DOMAIN st.open_trades THEN st
    ELSE LET trade == st.open_trades[signal.symbol]
             exit_price == IF signal.target_price # NoPrice
                           THEN apply_slippage(bt, signal.target_price, TRUE)
                           ELSE apply_slippage(bt, trade.entry_price, TRUE)
             exit_slippage == Abs(exit_price - trade.entry_price) \div 100
             closed == close(trade, exit_price, "SignalReverse",
                             bt.config.commission_per_trade, exit_slippage)
         IN  [st EXCEPT !.open_trades = Without(st.open_trades, signal.symbol),
                        !.capital = st.capital + closed.net_pnl,
                        !.closed_trades = Append(st.closed_trades, closed)]

\* run_with_signals, loop body, second part: the entry of a new position.
open_trade(bt, st, signal) ==
    LET entry_price == signal.target_price
        position_value == (st.capital * bt.config.default_position_size_pct) \div 100
        open_positions_map ==
            [x \in DOMAIN st.open_trades |->
                st.open_trades[x].entry_price * st.open_trades[x].quantity]
        risk_amount ==
            IF signal.stop_loss # NoPrice
            THEN Abs(entry_price - signal.stop_loss) * (position_value \div entry_price)
            ELSE position_value \div 100
        risk_check == check_trade(bt.risk_manager, signal.symbol, position_value,
                                  risk_amount, open_positions_map, 10, st.capital)
        size == calculate_position_size(bt, st.capital, signal)
        adjusted_entry == apply_slippage(bt, entry_price, FALSE)
        quantity == size \div Unit
        commission == bt.config.commission_per_trade
        slippage == Abs(adjusted_entry - entry_price)
        trade == BacktestTrade_new(signal.symbol, signal.action, adjusted_entry, quantity,
                                   st.idx, commission, slippage)
        trade_cost == adjusted_entry * quantity + commission
        rejected == [st EXCEPT !.rejected_signals = @ + 1]
        opened == With(st.open_trades, signal.symbol, trade)
        open_positions_value ==
            SumOver([x \in DOMAIN opened |-> entry_price * opened[x].quantity],
                    DOMAIN opened)
    IN  IF entry_price = NoPrice THEN rejected
        ELSE IF risk_check # "Approved" THEN rejected
        ELSE IF size < Unit THEN st
        ELSE IF trade_cost > st.capital THEN rejected
        ELSE [st EXCEPT !.capital = st.capital - trade_cost,
                        !.open_trades = opened,
                        !.equity_curve =
                            Append(st.equity_curve,
                                   st.capital - trade_cost + open_positions_value)]

\* run_with_signals, one iteration of the loop over the signals.
process_signal(bt, st, signal) ==
    IF signal.action = "Hold" THEN st
    ELSE IF signal.action = "Close" THEN close_existing(bt, st, signal)
    ELSE open_trade(bt, close_existing(bt, st, signal), signal)

\* Mutant: the positions still open are dropped, neither closed nor returned.
close_remaining_dropped(bt, st, order) ==
    [st EXCEPT !.open_trades = <<>>]

RECURSIVE close_remaining(_, _, _)
\* run_with_signals, after the loop: the positions still open are closed at
\* their entry price, in the order `order` the HashMap yields them.
close_remaining(bt, st, order) ==
    IF order = <<>> THEN st
    ELSE LET trade == st.open_trades[order[1]]
             exit_price == apply_slippage(bt, trade.entry_price, TRUE)
             closed == close(trade, exit_price, "EndOfData",
                             bt.config.commission_per_trade, 0)
         IN  close_remaining(bt,
                 [st EXCEPT !.open_trades = Without(st.open_trades, order[1]),
                            !.capital = st.capital + closed.net_pnl,
                            !.closed_trades = Append(st.closed_trades, closed)],
                 Tail(order))

(***************************************************************************)
(* backtest/engine.rs, Backtester::run                                     *)
(*                                                                         *)
(* A series of MarketData is held as the mid price of each of its time     *)
(* steps, and a Signal as the aggregator holds it.                         *)
(***************************************************************************)
\* historical_data.values().map(|v| v.len()).min(), for a map that is not empty.
min_data_points(data) ==
    CHOOSE n \in { Len(data[s]) : s \in DOMAIN data } :
        \A s \in DOMAIN data : n <= Len(data[s])

\* The MarketSnapshot of time step i (from 0): the mid price of every tracked
\* symbol whose series has a step i.
market_snapshot(data, tracked, i) ==
    [s \in { x \in tracked : x \in DOMAIN data /\ i < Len(data[x]) } |-> data[s][i + 1]]

\* Backtester::should_exit: an opposing signal, then the 2% stop loss, then
\* the 4% take profit.
should_exit(t, current_price, aggregated) ==
    LET gain == IF t.action = "Buy" THEN current_price - t.entry_price
                ELSE t.entry_price - current_price
    IN  IF \E k \in 1..Len(aggregated) :
              aggregated[k].symbol = t.symbol /\ aggregated[k].action # t.action
        THEN "SignalReverse"
        ELSE IF t.action \in {"Buy", "Sell"} /\ gain * 100 < -2 * t.entry_price
        THEN "StopLoss"
        ELSE IF t.action \in {"Buy", "Sell"} /\ gain * 100 > 4 * t.entry_price
        THEN "TakeProfit"
        ELSE None

\* Backtester::calculate_position_size for an aggregated signal, whose
\* confidence is a fraction of hundredths.
calculate_position_size_aggregated(bt, cap, signal) ==
    LET plain == (cap * bt.config.default_position_size_pct) \div 100
        c == signal.confidence
    IN  IF bt.config.use_confidence_sizing
        THEN (plain * (100 * c[2] + c[1])) \div (200 * c[2])
        ELSE plain

RECURSIVE run_exits(_, _, _, _, _)
\* run, "Check if we should close existing positions" and "Remove closed
\* trades": the open trades are visited in the order `order` of the HashMap.
run_exits(bt, st, snapshot, aggregated, order) ==
    IF order = <<>> THEN st
    ELSE LET t == st.open_trades[order[1]]
             exit_reason == IF order[1] \in DOMAIN snapshot
                            THEN should_exit(t, snapshot[order[1]], aggregated)
                            ELSE None
         IN  IF exit_reason = None
             THEN run_exits(bt, st, snapshot, aggregated, Tail(order))
             ELSE LET mid == snapshot[order[1]]
                      exit_price == apply_slippage(bt, mid, TRUE)
                      closed == close(t, exit_price, exit_reason,
                                      bt.config.commission_per_trade,
                                      Abs(exit_price - mid))
                  IN  run_exits(bt,
                          [st EXCEPT !.open_trades = Without(st.open_trades, order[1]),
                                     !.capital = st.capital + closed.net_pnl,
                                     !.closed_trades = Append(st.closed_trades, closed)],
                          snapshot, aggregated, Tail(order))

\* run, "Process new signals", one signal.
run_entry(bt, st, snapshot, signal) ==
    LET position_value == (st.capital * bt.config.default_position_size_pct) \div 100
        open_positions_map ==
            [x \in DOMAIN st.open_trades |->
                st.open_trades[x].entry_price * st.open_trades[x].quantity]
        risk_check == check_trade(bt.risk_manager, signal.symbol, position_value,
                                  position_value \div 100, open_positions_map, 10,
                                  st.capital)
        size == calculate_position_size_aggregated(bt, st.capital, signal)
        mid == snapshot[signal.symbol]
        entry_price == apply_slippage(bt, mid, FALSE)
        quantity == size \div Unit
        commission == bt.config.commission_per_trade
        t == BacktestTrade_new(signal.symbol, signal.action, entry_price, quantity,
                               st.idx, commission, Abs(entry_price - mid))
        trade_cost == entry_price * quantity + commission
    IN  IF signal.action = "Hold" THEN st
        ELSE IF signal.symbol \in DOMAIN st.open_trades THEN st
        ELSE IF signal.symbol \notin DOMAIN snapshot THEN st
        ELSE IF risk_check # "Approved" THEN [st EXCEPT !.rejected_signals = @ + 1]
        ELSE IF size < Unit THEN st
        ELSE [st EXCEPT !.capital = st.capital - trade_cost,
                        !.open_trades = With(st.open_trades, signal.symbol, t)]

RECURSIVE run_entries(_, _, _, _)
\* run, "Process new signals": for signal in aggregated_signals.
run_entries(bt, st, snapshot, aggregated) ==
    IF aggregated = <<>> THEN st
    ELSE run_entries(bt, run_entry(bt, st, snapshot, aggregated[1]), snapshot,
                     Tail(aggregated))

\* run, one iteration of the loop over the time steps, from the signals
\* collected in all_signals and aggregated to `aggregated`.
run_step(bt, st, snapshot, collected, aggregated, order) ==
    LET counted == [st EXCEPT !.total_signals = @ + Len(collected)]
        exited == run_exits(bt, counted, snapshot, aggregated, order)
        entered == run_entries(bt, exited, snapshot, aggregated)
        valued == DOMAIN entered.open_trades \cap DOMAIN snapshot
        open_positions_value ==
            SumOver([x \in valued |-> snapshot[x] * entered.open_trades[x].quantity],
                    valued)
    IN  [entered EXCEPT !.equity_curve =
                            Append(@, entered.capital + open_positions_value)]

RECURSIVE run_close_remaining(_, _, _, _)
\* run, "Close all remaining positions at the end", at the last price of the
\* symbol's series; a trade whose symbol has no price is dropped.
run_close_remaining(bt, st, data, order) ==
    IF order = <<>> THEN st
    ELSE LET t == st.open_trades[order[1]]
             left == [st EXCEPT !.open_trades = Without(st.open_trades, order[1])]
         IN  IF order[1] \in DOMAIN data /\ data[order[1]] # <<>>
             THEN LET last_data == data[order[1]][Len(data[order[1]])]
                      closed == close(t, apply_slippage(bt, last_data, TRUE), "EndOfData",
                                      bt.config.commission_per_trade, 0)
                  IN  run_close_remaining(bt,
                          [left EXCEPT !.capital = st.capital + closed.net_pnl,
                                       !.closed_trades = Append(st.closed_trades, closed)],
                          data, Tail(order))
             ELSE run_close_remaining(bt, left, data, Tail(order))

(***************************************************************************)
(* core/signal_aggregator.rs                                               *)
(*                                                                         *)
(* A Signal is held as the fields the aggregator reads: symbol, action and *)
(* confidence.  The confidence of an input signal is a whole number of     *)
(* hundredths; the confidence of a returned signal is a fraction of        *)
(* hundredths, an average being a quotient.                                *)
(***************************************************************************)
\* SignalAggregator::new
SignalAggregator_new(strategy) == [strategy |-> strategy, min_confidence |-> 50]

\* SignalAggregator::with_min_confidence
with_min_confidence(agg, min_confidence) ==
    [agg EXCEPT !.min_confidence = min_confidence]

\* Option<Signal>::None
NoAggregate == [some |-> FALSE, symbol |-> None, action |-> None, confidence |-> <<0, 1>>]

\* Some(base_signal), base_signal the clone of `first` carrying `confidence`.
SomeSignal(first, confidence) ==
    [f \in DOMAIN first \cup {"some"} |->
        IF f = "some" THEN TRUE
        ELSE IF f = "confidence" THEN confidence
        ELSE first[f]]

RECURSIVE SumConfidence(_)
\* signals.iter().map(|s| s.confidence.value()).sum()
SumConfidence(signals) ==
    IF signals = <<>> THEN 0
    ELSE signals[1].confidence + SumConfidence(Tail(signals))

\* The average confidence of a non-empty list of signals.
avg_confidence(signals) == Rat(SumConfidence(signals), Len(signals))

\* The signals of `signals` with the action `action`, in their order: the
\* Vec the by_action / votes map holds for that action.
by_action(signals, action) == SelectSeq(signals, LAMBDA x : x.action = action)

\* The keys of the by_action / votes map.
ActionsOf(signals) == { signals[i].action : i \in 1..Len(signals) }

\* Mutant: the highest-confidence signal is returned whatever its confidence.
highest_confidence_unfiltered(agg, signals) ==
    LET top == CHOOSE i \in 1..Len(signals) :
                   /\ \A j \in 1..Len(signals) :
                         signals[j].confidence <= signals[i].confidence
                   /\ \A j \in 1..(i - 1) :
                         signals[j].confidence < signals[i].confidence
    IN  SomeSignal(signals[top], <<signals[top].confidence, 1>>)

\* SignalAggregator::highest_confidence: the stable sort by descending
\* confidence puts first the earliest signal of the highest confidence, and
\* find returns it if it reaches the minimum, and nothing otherwise (every
\* signal after it has no more confidence than it).
highest_confidence(agg, signals) ==
    LET top == CHOOSE i \in 1..Len(signals) :
                   /\ \A j \in 1..Len(signals) :
                         signals[j].confidence <= signals[i].confidence
                   /\ \A j \in 1..(i - 1) :
                         signals[j].confidence < signals[i].confidence
    IN  IF signals[top].confidence >= agg.min_confidence
        THEN SomeSignal(signals[top], <<signals[top].confidence, 1>>)
        ELSE NoAggregate

RECURSIVE best_of(_, _, _, _)
\* The loop of weighted_average over the by_action map, iterated in the
\* order `order`: best is replaced by an action whose average reaches the
\* minimum and is strictly higher than the best so far.
best_of(agg, signals, order, best) ==
    IF order = <<>> THEN best
    ELSE LET action_signals == by_action(signals, order[1])
             avg == avg_confidence(action_signals)
         IN  best_of(agg, signals, Tail(order),
                     IF /\ ~RatLT(avg, <<agg.min_confidence, 1>>)
                        /\ (~best.some \/ RatLT(best.confidence, avg))
                     THEN SomeSignal(action_signals[1], avg)
                     ELSE best)

\* Mutant: the first action group found that reaches the minimum is kept,
\* whether or not a later group has a higher average.
weighted_average_first_found(agg, signals, order) ==
    LET reaches(i) == ~RatLT(avg_confidence(by_action(signals, order[i])),
                             <<agg.min_confidence, 1>>)
        found == { i \in 1..Len(order) : reaches(i) }
    IN  IF found = {} THEN NoAggregate
        ELSE LET i == CHOOSE x \in found : \A y \in found : x <= y
                 action_signals == by_action(signals, order[i])
             IN  SomeSignal(action_signals[1], avg_confidence(action_signals))

\* SignalAggregator::weighted_average, the by_action map iterated in `order`.
weighted_average(agg, signals, order) ==
    best_of(agg, signals, order, NoAggregate)

\* Mutant: the first signal's action is taken for everyone's.
unanimous_unchecked(agg, signals) ==
    LET first_action == signals[1].action
        avg == avg_confidence(signals)
    IN  IF RatLT(avg, <<agg.min_confidence, 1>>) THEN NoAggregate
        ELSE SomeSignal(signals[1], avg)

\* SignalAggregator::unanimous
unanimous(agg, signals) ==
    LET first_action == signals[1].action
        all_agree == \A i \in 1..Len(signals) : signals[i].action = first_action
        avg == avg_confidence(signals)
    IN  IF ~all_agree THEN NoAggregate
        ELSE IF RatLT(avg, <<agg.min_confidence, 1>>) THEN NoAggregate
        ELSE SomeSignal(signals[1], avg)

RECURSIVE max_by_key(_, _, _)
\* Iterator::max_by_key over the votes map iterated in `order`, the key the
\* number of signals of the action: the last of the maximal elements.
max_by_key(signals, order, majority) ==
    IF order = <<>> THEN majority
    ELSE max_by_key(signals, Tail(order),
                    IF Len(by_action(signals, order[1])) >= Len(by_action(signals, majority))
                    THEN order[1] ELSE majority)

\* SignalAggregator::majority_vote, the votes map iterated in `order`.
majority_vote(agg, signals, order) ==
    LET action_signals == by_action(signals, max_by_key(signals, Tail(order), order[1]))
        avg == avg_confidence(action_signals)
    IN  IF RatLT(avg, <<agg.min_confidence, 1>>) THEN NoAggregate
        ELSE SomeSignal(action_signals[1], avg)

\* SignalAggregator::aggregate_symbol_signals, for a non-empty group whose
\* map of actions is iterated in `order`.
aggregate_symbol_signals(agg, signals, order) ==
    IF agg.strategy = "HighestConfidence" THEN highest_confidence(agg, signals)
    ELSE IF agg.strategy = "WeightedAverage" THEN weighted_average(agg, signals, order)
    ELSE IF agg.strategy = "Unanimous" THEN unanimous(agg, signals)
    ELSE majority_vote(agg, signals, order)

\* The signals of `signals` for the symbol, in their order: the Vec the
\* by_symbol map holds for that symbol.
by_symbol(signals, symbol) == SelectSeq(signals, LAMBDA x : x.symbol = symbol)

\* The keys of the by_symbol map.
SymbolsOf(signals) == { signals[i].symbol : i \in 1..Len(signals) }

RECURSIVE filter_map(_, _, _, _)
\* by_symbol.into_iter().filter_map(..).collect(), the by_symbol map iterated
\* in symbol_order and the map of actions of each group in action_orders.
filter_map(agg, signals, symbol_order, action_orders) ==
    IF symbol_order = <<>> THEN <<>>
    ELSE LET one == aggregate_symbol_signals(agg, by_symbol(signals, symbol_order[1]),
                                             action_orders[symbol_order[1]])
             rest == filter_map(agg, signals, Tail(symbol_order), action_orders)
         IN  IF one.some THEN <<one>> \o rest ELSE rest

\* SignalAggregator::aggregate
aggregate(agg, signals, symbol_order, action_orders) ==
    filter_map(agg, signals, symbol_order, action_orders)

(***************************************************************************)
(* The Risk Manager driven on its own: any sequence of its public calls.   *)
(***************************************************************************)
\* Configurations the Risk Manager is created with.
RiskManagerConfigs ==
    { RiskManagerConfig_default,
      [max_risk_per_trade_pct       |-> 100,
       max_daily_drawdown_pct       |-> 1000,
       max_correlation_exposure_pct |-> 2000,
       max_consecutive_losses       |-> 2,
       emergency_stop_value         |-> 0],
      [RiskManagerConfig_default EXCEPT !.max_consecutive_losses = 1] }

InitialValues   == {10000}
PortfolioValues == {0, 5000, 9500, 10000}
Pnls            == {-50, 0, 100}

\* Arguments check_trade is called with.
CheckSymbols        == {"IWM", "AAPL"}
CheckPositionValues == {1000, 6000}
CheckRiskAmounts    == {20, 100}
CheckMaxPositions   == {1, 10}
CheckCash           == {500, 10000}
HeldValue           == [s \in Symbols |-> IF s = "SPY" THEN 4000 ELSE 1000]
CheckOpenPositions  ==
    { [s \in D |-> HeldValue[s]] : D \in {{}, {"SPY"}} }

\* rm_out when the call just made was not a check_trade.
NoCheck ==
    [symbol |-> None, position_value |-> 0, risk_amount |-> 0, open_positions |-> <<>>,
     max_positions |-> 0, cash |-> 0, result |-> None]

\* The components a specification does not drive stay as they are here.
RM_Idle == risk_manager = None /\ rm_log = <<>> /\ rm_out = NoCheck
OM_Idle ==
    /\ cash = 0 /\ positions = <<>> /\ trade_history = <<>>
    /\ sizer = None /\ config = None /\ om_out = None
PS_Idle == position_sizer = None /\ ps_out = None
BT_Idle ==
    /\ backtester = None /\ capital = 0 /\ equity_curve = <<>>
    /\ open_trades = <<>> /\ closed_trades = <<>>
    /\ total_signals = 0 /\ rejected_signals = 0 /\ bt_pc = None
KC_Idle == kelly = None /\ kelly_log = <<>> /\ kelly_out = None
TR_Idle == backtest_trade = NoTrade /\ trade_call = None
RUN_Idle ==
    /\ historical_data = <<>> /\ symbols = {} /\ alphas = <<>>
    /\ run_i = 0 /\ run_out = None
EN_Idle == engine_stats = None /\ ticks = 0 /\ cycle_out = None
AG_Idle == aggregator = None /\ all_signals = <<>> /\ aggregated_signals = None

\* metrics_call before any call.
NoMetricsCall == [equity_curve |-> <<>>, called |-> FALSE, max_drawdown |-> <<0, 1>>]

\* quantity_call before any call.
NoQuantityCall == [op |-> None, value |-> 0, result |-> None, quantity |-> 0]

FN_Idle == metrics_call = NoMetricsCall /\ quantity_call = NoQuantityCall

Init_RM ==
    /\ \E cfg \in RiskManagerConfigs, initial_value \in InitialValues :
           risk_manager = RiskManager_new(cfg, initial_value)
    /\ rm_log = <<>>
    /\ rm_out = NoCheck
    /\ OM_Idle /\ PS_Idle /\ BT_Idle /\ KC_Idle /\ AG_Idle /\ TR_Idle /\ RUN_Idle /\ EN_Idle /\ FN_Idle

RM_update_portfolio_value(value) ==
    /\ risk_manager' = update_portfolio_value(risk_manager, value)
    /\ rm_out' = NoCheck
    /\ UNCHANGED <<rm_log, om_vars, ps_vars, bt_vars, kc_vars, ag_vars, tr_vars, run_vars, en_vars, fn_vars>>

RM_reset_daily ==
    /\ Len(rm_log) < MaxLog
    /\ risk_manager' = reset_daily(risk_manager)
    /\ rm_log' = Append(rm_log, [op |-> "reset_daily", pnl |-> 0])
    /\ rm_out' = NoCheck
    /\ UNCHANGED <<om_vars, ps_vars, bt_vars, kc_vars, ag_vars, tr_vars, run_vars, en_vars, fn_vars>>

RM_record_trade(pnl) ==
    /\ Len(rm_log) < MaxLog
    /\ risk_manager' = record_trade(risk_manager, pnl)
    /\ rm_log' = Append(rm_log, [op |-> "record_trade", pnl |-> pnl])
    /\ rm_out' = NoCheck
    /\ UNCHANGED <<om_vars, ps_vars, bt_vars, kc_vars, ag_vars, tr_vars, run_vars, en_vars, fn_vars>>

RM_check_trade(symbol, position_value, risk_amount, open_positions, max_positions, available_cash) ==
    /\ rm_out' = [symbol         |-> symbol,
                  position_value |-> position_value,
                  risk_amount    |-> risk_amount,
                  open_positions |-> open_positions,
                  max_positions  |-> max_positions,
                  cash           |-> available_cash,
                  result         |-> check_trade(risk_manager, symbol, position_value,
                                                 risk_amount, open_positions,
                                                 max_positions, available_cash)]
    /\ UNCHANGED <<risk_manager, rm_log, om_vars, ps_vars, bt_vars, kc_vars, ag_vars, tr_vars, run_vars, en_vars, fn_vars>>

Next_RM ==
    \/ \E value \in PortfolioValues : RM_update_portfolio_value(value)
    \/ RM_reset_daily
    \/ \E pnl \in Pnls : RM_record_trade(pnl)
    \/ \E symbol \in CheckSymbols, position_value \in CheckPositionValues,
          risk_amount \in CheckRiskAmounts, open_positions \in CheckOpenPositions,
          max_positions \in CheckMaxPositions, available_cash \in CheckCash :
            RM_check_trade(symbol, position_value, risk_amount, open_positions,
                           max_positions, available_cash)

SpecRM == Init_RM /\ [][Next_RM]_vars

(***************************************************************************)
(* The Order Manager driven by its callers: any sequence of execute_signal,*)
(* update_positions, check_exits and reset_daily.                          *)
(***************************************************************************)
\* OrderManagerConfig::default
OrderManagerConfig_default ==
    [max_positions |-> 10, max_risk_per_trade_pct |-> 50, paper_trading |-> TRUE]

OrderManagerConfigs ==
    { OrderManagerConfig_default,
      [OrderManagerConfig_default EXCEPT !.paper_trading = FALSE],
      [max_positions |-> 2, max_risk_per_trade_pct |-> 100, paper_trading |-> TRUE] }

\* The symbols signals and snapshots name: one of the broad_market group, one
\* of no correlation group.
TradedSymbols == {"SPY", "AAPL"}
InitialCash   == {0, 10000}
Prices        == {90, 100, 101}
StopLosses    == {NoPrice, 99, 100}
TakeProfits   == {NoPrice, 100, 101}
SignalActions == {"Buy", "Sell", "Close", "Hold"}

\* The exits a signal carries, <<stop_loss, take_profit>>: none, a stop-loss
\* alone, a stop-loss below the target, and a stop-loss that is the target.
Brackets ==
    { b \in StopLosses \X TakeProfits :
        b \in {<<NoPrice, NoPrice>>, <<99, NoPrice>>, <<99, 101>>, <<100, 100>>} }

\* The fields of a Signal that execute_signal reads.
Signals ==
    { [symbol |-> s, action |-> a, stop_loss |-> b[1], take_profit |-> b[2]] :
        s \in TradedSymbols, a \in SignalActions, b \in Brackets }

NoSignal == [symbol |-> None, action |-> None, stop_loss |-> NoPrice, take_profit |-> NoPrice]

\* Market snapshots: a last price for some of the symbols.
Snapshots == UNION { [D -> Prices] : D \in SUBSET TradedSymbols }

\* OrderManager::new
OrderManager_new(initial_cash, cfg) ==
    [cash |-> initial_cash,
     positions |-> <<>>,
     trade_history |-> <<>>,
     sizer |-> PositionSizer_new(initial_cash, cfg.max_risk_per_trade_pct),
     risk_manager |->
        RiskManager_new([max_risk_per_trade_pct       |-> cfg.max_risk_per_trade_pct,
                         max_daily_drawdown_pct       |-> 500,
                         max_correlation_exposure_pct |-> 5000,
                         max_consecutive_losses       |-> 3,
                         emergency_stop_value         |-> initial_cash \div 2],
                        initial_cash),
     config |-> cfg]

\* om_out of a call that returns nothing.
NoReturn(op) ==
    [op |-> op, symbol |-> None, signal |-> NoSignal, price |-> NoPrice,
     result |-> None, error |-> None, order |-> NoOrder, held |-> <<>>, closed |-> <<>>]

Init_OM ==
    /\ \E initial_cash \in InitialCash, cfg \in OrderManagerConfigs :
         LET om == OrderManager_new(initial_cash, cfg)
         IN  /\ cash = om.cash
             /\ positions = om.positions
             /\ trade_history = om.trade_history
             /\ sizer = om.sizer
             /\ risk_manager = om.risk_manager
             /\ config = om.config
    /\ om_out = NoReturn("new")
    /\ rm_log = <<>>
    /\ rm_out = NoCheck
    /\ PS_Idle /\ BT_Idle /\ KC_Idle /\ AG_Idle /\ TR_Idle /\ RUN_Idle /\ EN_Idle /\ FN_Idle

SetSelf(self) ==
    /\ cash' = self.cash
    /\ positions' = self.positions
    /\ trade_history' = self.trade_history
    /\ risk_manager' = self.risk_manager

OM_execute_signal(signal, current_price) ==
    \E r \in {execute_signal(Self, config, sizer, signal, current_price)} :
        /\ Len(r.self.trade_history) + Cardinality(DOMAIN r.self.positions) <= MaxOrders
        /\ SetSelf(r.self)
        /\ om_out' = [op |-> "execute_signal",
                      symbol |-> signal.symbol,
                      signal |-> IF r.result = "Ok" THEN signal ELSE NoSignal,
                      price |-> IF r.result = "Ok" THEN current_price ELSE NoPrice,
                      result |-> r.result, error |-> r.error, order |-> r.order,
                      held |-> <<>>, closed |-> <<>>]
        /\ UNCHANGED <<sizer, config, rm_log, rm_out, ps_vars, bt_vars, kc_vars, ag_vars, tr_vars, run_vars, en_vars, fn_vars>>

OM_update_positions(snapshot) ==
    /\ SetSelf(update_positions(Self, snapshot))
    /\ om_out' = NoReturn("update_positions")
    /\ UNCHANGED <<sizer, config, rm_log, rm_out, ps_vars, bt_vars, kc_vars, ag_vars, tr_vars, run_vars, en_vars, fn_vars>>

OM_check_exits ==
    \E order \in Orders(to_close(Self)) :
        \E after \in {close_all(Self, order)} :
            /\ SetSelf(after)
            /\ om_out' = [NoReturn("check_exits") EXCEPT
                            !.held = positions,
                            !.closed = SubSeq(after.trade_history,
                                              Len(trade_history) + 1,
                                              Len(after.trade_history))]
            /\ UNCHANGED <<sizer, config, rm_log, rm_out, ps_vars, bt_vars, kc_vars, ag_vars, tr_vars, run_vars, en_vars, fn_vars>>

OM_reset_daily ==
    /\ risk_manager' = reset_daily(risk_manager)
    /\ om_out' = NoReturn("reset_daily")
    /\ UNCHANGED <<cash, positions, trade_history, sizer, config, rm_log, rm_out, ps_vars, bt_vars, kc_vars, ag_vars, tr_vars, run_vars, en_vars, fn_vars>>

Next_OM ==
    \/ \E signal \in Signals, current_price \in Prices :
          OM_execute_signal(signal, current_price)
    \/ \E snapshot \in Snapshots : OM_update_positions(snapshot)
    \/ OM_check_exits
    \/ OM_reset_daily

SpecOM == Init_OM /\ [][Next_OM]_vars

(***************************************************************************)
(* The Order Manager followed through a streak of losses: positions opened *)
(* at 100 with a stop-loss at 97, closed by check_exits at the prices the  *)
(* snapshots bring.  rm_log holds what the OrderManager has told its       *)
(* RiskManager: a record_trade for each position closed, and each          *)
(* reset_daily.                                                            *)
(***************************************************************************)
MaxStreak == 4   \* positions the OrderManager opens, and calls logged in rm_log

StreakSymbols == {"AAPL", "MSFT"}
StreakPrices  == {96, 102}

\* A Buy of AAPL with a stop-loss alone, and one of MSFT with a target too.
StreakSignals ==
    { [symbol |-> "AAPL", action |-> "Buy", stop_loss |-> 97, take_profit |-> NoPrice],
      [symbol |-> "MSFT", action |-> "Buy", stop_loss |-> 97, take_profit |-> 101] }

StreakSnapshots ==
    UNION { [D -> StreakPrices] : D \in SUBSET StreakSymbols \ {{}} }

\* The record_trade calls of the positions closed: one for each Trade added.
Recorded(trades) ==
    [k \in DOMAIN trades |-> [op |-> "record_trade", pnl |-> trades[k].pnl]]

Init_LS ==
    /\ \E om \in {OrderManager_new(10000, OrderManagerConfig_default)} :
             /\ cash = om.cash
             /\ positions = om.positions
             /\ trade_history = om.trade_history
             /\ sizer = om.sizer
             /\ risk_manager = om.risk_manager
             /\ config = om.config
    /\ om_out = NoReturn("new")
    /\ rm_log = <<>>
    /\ rm_out = NoCheck
    /\ PS_Idle /\ BT_Idle /\ KC_Idle /\ AG_Idle /\ TR_Idle /\ RUN_Idle /\ EN_Idle /\ FN_Idle

LS_execute_signal(signal, current_price) ==
    \E r \in {execute_signal(Self, config, sizer, signal, current_price)} :
        /\ Len(r.self.trade_history) + Cardinality(DOMAIN r.self.positions) <= MaxStreak
        /\ SetSelf(r.self)
        /\ om_out' = [op |-> "execute_signal",
                      symbol |-> signal.symbol,
                      signal |-> IF r.result = "Ok" THEN signal ELSE NoSignal,
                      price |-> IF r.result = "Ok" THEN current_price ELSE NoPrice,
                      result |-> r.result, error |-> r.error, order |-> r.order,
                      held |-> <<>>, closed |-> <<>>]
        /\ UNCHANGED <<sizer, config, rm_log, rm_out, ps_vars, bt_vars, kc_vars, ag_vars,
                       tr_vars, run_vars, en_vars, fn_vars>>

LS_update_positions(snapshot) ==
    /\ SetSelf(update_positions(Self, snapshot))
    /\ om_out' = NoReturn("update_positions")
    /\ UNCHANGED <<sizer, config, rm_log, rm_out, ps_vars, bt_vars, kc_vars, ag_vars,
                   tr_vars, run_vars, en_vars, fn_vars>>

LS_check_exits ==
    \E order \in Orders(to_close(Self)) :
        \E after \in {close_all(Self, order)} :
            \E closed \in {SubSeq(after.trade_history, Len(trade_history) + 1,
                                   Len(after.trade_history))} :
                /\ SetSelf(after)
                /\ om_out' = [NoReturn("check_exits") EXCEPT
                                !.held = positions, !.closed = closed]
                /\ rm_log' = rm_log \o Recorded(closed)
                /\ UNCHANGED <<sizer, config, rm_out, ps_vars, bt_vars, kc_vars, ag_vars,
                               tr_vars, run_vars, en_vars, fn_vars>>

LS_reset_daily ==
    /\ Len(rm_log) < MaxStreak
    /\ risk_manager' = reset_daily(risk_manager)
    /\ rm_log' = Append(rm_log, [op |-> "reset_daily", pnl |-> 0])
    /\ om_out' = NoReturn("reset_daily")
    /\ UNCHANGED <<cash, positions, trade_history, sizer, config, rm_out, ps_vars,
                   bt_vars, kc_vars, ag_vars, tr_vars, run_vars, en_vars, fn_vars>>

Next_LS ==
    \/ \E signal \in StreakSignals : LS_execute_signal(signal, 100)
    \/ \E snapshot \in StreakSnapshots : LS_update_positions(snapshot)
    \/ LS_check_exits
    \/ LS_reset_daily

SpecLS == Init_LS /\ [][Next_LS]_vars

(***************************************************************************)
(* The IntegratedPositionSizer driven by its caller: any sequence of       *)
(* update_portfolio, record_trade, reset_daily and calculate_position.     *)
(***************************************************************************)
\* Kelly sizes from the second recorded trade on.
KellyConfig_fast == [KellyConfig_default EXCEPT !.min_trades_for_kelly = 2]

\* A per-trade risk cap of 0.1 percent, and two losses to lock out.
RiskManagerConfig_tight ==
    [RiskManagerConfig_default EXCEPT !.max_risk_per_trade_pct = 10,
                                      !.max_consecutive_losses = 2]

PositionSizerConfigs ==
    { [kelly |-> KellyConfig_default, risk |-> RiskManagerConfig_default],
      [kelly |-> KellyConfig_fast,    risk |-> RiskManagerConfig_default],
      [kelly |-> KellyConfig_fast,    risk |-> RiskManagerConfig_tight] }

SizerPortfolioValues == {5000, 9400, 10000}
SizerPnls            == {-100, 200}
SizerSymbols         == {"IWM", "AAPL"}
SizerConfidences     == {50, 100}
SizerPrices          == {100, 600}
SizerStopLosses      == {NoPrice, 40, 85}

\* The open positions, position limit and cash calculate_position is given.
SizerContexts ==
    { [open_positions |-> <<>>,                   max_positions |-> 10, cash |-> 10000],
      [open_positions |-> <<>>,                   max_positions |-> 10, cash |-> 100],
      [open_positions |-> [s \in {"SPY"} |-> 4500], max_positions |-> 10, cash |-> 10000],
      [open_positions |-> [s \in {"SPY"} |-> 4500], max_positions |-> 1,  cash |-> 10000] }

\* The fields of a Signal that calculate_position reads.
SizerSignals ==
    [symbol : SizerSymbols, confidence : SizerConfidences, stop_loss : SizerStopLosses]

\* ps_out when the call just made was not a calculate_position.
NoDecision ==
    [signal |-> [symbol |-> None, confidence |-> NoConfidence, stop_loss |-> NoPrice],
     current_price |-> NoPrice,
     result |-> None, approval_status |-> None, quantity |-> 0, violation |-> None,
     risk_check |-> None]

Init_PS ==
    /\ \E c \in PositionSizerConfigs :
           position_sizer = IntegratedPositionSizer_new(c.kelly, c.risk, 10000)
    /\ ps_out = NoDecision
    /\ RM_Idle /\ OM_Idle /\ BT_Idle /\ KC_Idle /\ AG_Idle /\ TR_Idle /\ RUN_Idle /\ EN_Idle /\ FN_Idle

PS_update_portfolio(value) ==
    /\ position_sizer' = update_portfolio(position_sizer, value)
    /\ ps_out' = NoDecision
    /\ UNCHANGED <<rm_vars, om_vars, bt_vars, kc_vars, ag_vars, tr_vars, run_vars, en_vars, fn_vars>>

PS_record_trade(pnl) ==
    /\ position_sizer.kelly.stats.total_trades < MaxTrades
    /\ position_sizer' = IntegratedPositionSizer_record_trade(position_sizer, pnl)
    /\ ps_out' = NoDecision
    /\ UNCHANGED <<rm_vars, om_vars, bt_vars, kc_vars, ag_vars, tr_vars, run_vars, en_vars, fn_vars>>

PS_reset_daily ==
    /\ position_sizer' = [position_sizer EXCEPT
                            !.risk_manager = reset_daily(position_sizer.risk_manager)]
    /\ ps_out' = NoDecision
    /\ UNCHANGED <<rm_vars, om_vars, bt_vars, kc_vars, ag_vars, tr_vars, run_vars, en_vars, fn_vars>>

PS_calculate_position(signal, current_price, open_positions, max_positions, available_cash) ==
    \E d \in {calculate_position(position_sizer, signal, current_price, open_positions,
                                 max_positions, available_cash)} :
        /\ ps_out' = [signal |-> signal, current_price |-> current_price,
                      result |-> d.result, approval_status |-> d.approval_status,
                      quantity |-> d.quantity, violation |-> d.violation,
                      risk_check |-> d.risk_check]
        /\ UNCHANGED <<position_sizer, rm_vars, om_vars, bt_vars, kc_vars, ag_vars, tr_vars, run_vars, en_vars, fn_vars>>

Next_PS ==
    \/ \E value \in SizerPortfolioValues : PS_update_portfolio(value)
    \/ \E pnl \in SizerPnls : PS_record_trade(pnl)
    \/ PS_reset_daily
    \/ \E signal \in SizerSignals, current_price \in SizerPrices, c \in SizerContexts :
            PS_calculate_position(signal, current_price, c.open_positions,
                                  c.max_positions, c.cash)

SpecPS == Init_PS /\ [][Next_PS]_vars

(***************************************************************************)
(* One Backtester::run_with_signals call, a loop iteration at a time, over *)
(* any list of at most MaxSignals signals.                                 *)
(***************************************************************************)
\* The risk configuration of a backtest of 100 dollars.
BacktestRiskConfig ==
    [RiskManagerConfig_default EXCEPT !.emergency_stop_value = 50 * Unit]

BacktestConfigs ==
    { [initial_capital           |-> 100 * Unit,
       commission_per_trade      |-> 1 * Unit,
       slippage_pct              |-> 0,
       default_position_size_pct |-> 10,
       use_confidence_sizing     |-> TRUE,
       risk_config               |-> BacktestRiskConfig],
      [initial_capital           |-> 100 * Unit,
       commission_per_trade      |-> 0,
       slippage_pct              |-> 0,
       default_position_size_pct |-> 10,
       use_confidence_sizing     |-> FALSE,
       risk_config               |-> BacktestRiskConfig] }

\* Symbols of no correlation group.
BacktestSymbols      == {"AAPL", "MSFT"}
BacktestConfidences  == {0, 100}
BacktestTargetPrices == {NoPrice, 8 * Unit, 9 * Unit}
BacktestStopLosses   == {NoPrice, 7 * Unit}

\* The fields of a Signal that run_with_signals reads.
BacktestSignals ==
    [symbol : BacktestSymbols, action : SignalActions, confidence : BacktestConfidences,
     target_price : BacktestTargetPrices, stop_loss : BacktestStopLosses]

Init_BT ==
    /\ \E cfg \in BacktestConfigs :
        /\ backtester = Backtester_new(cfg)
        /\ capital = cfg.initial_capital
        /\ equity_curve = <<cfg.initial_capital>>
    /\ open_trades = <<>>
    /\ closed_trades = <<>>
    /\ total_signals = 0
    /\ rejected_signals = 0
    /\ bt_pc = "loop"
    /\ RM_Idle /\ OM_Idle /\ PS_Idle /\ KC_Idle /\ AG_Idle /\ TR_Idle /\ RUN_Idle /\ EN_Idle /\ FN_Idle

SetReplay(st) ==
    /\ capital' = st.capital
    /\ equity_curve' = st.equity_curve
    /\ open_trades' = st.open_trades
    /\ closed_trades' = st.closed_trades
    /\ rejected_signals' = st.rejected_signals

\* The loop takes the next signal of the list.
BT_signal(signal) ==
    /\ bt_pc = "loop"
    /\ total_signals < MaxSignals
    /\ \E st \in {process_signal(backtester, Replay, signal)} : SetReplay(st)
    /\ total_signals' = total_signals + 1
    /\ UNCHANGED <<backtester, bt_pc, rm_vars, om_vars, ps_vars, kc_vars, ag_vars, tr_vars, run_vars, en_vars, fn_vars>>

\* The list is exhausted: the remaining positions are closed and the result,
\* with final_capital = capital, is returned.
BT_return ==
    /\ bt_pc = "loop"
    /\ \E order \in Orders(DOMAIN open_trades) :
         \E st \in {close_remaining(backtester, Replay, order)} : SetReplay(st)
    /\ bt_pc' = "returned"
    /\ UNCHANGED <<backtester, total_signals, rm_vars, om_vars, ps_vars, kc_vars, ag_vars, tr_vars, run_vars, en_vars, fn_vars>>

Next_BT ==
    \/ \E signal \in BacktestSignals : BT_signal(signal)
    \/ BT_return

SpecBT == Init_BT /\ [][Next_BT]_vars

(***************************************************************************)
(* One BacktestTrade from its creation to its close: created and closed    *)
(* by direct calls of BacktestTrade::new and close, or entered and exited  *)
(* by the replay at prices quoted by the market.                           *)
(***************************************************************************)
\* The configurations of the Backtester that enters and exits the trade:
\* no slippage, the default 0.05% and the 0.1% of test_slippage_application.
TradeBacktestConfigs ==
    { [initial_capital           |-> 100 * Unit,
       commission_per_trade      |-> 1 * Unit,
       slippage_pct              |-> s,
       default_position_size_pct |-> 10,
       use_confidence_sizing     |-> TRUE,
       risk_config               |-> BacktestRiskConfig] : s \in {0, 5, 10} }

TradeActions     == {"Buy", "Sell", "Close"}
TradePrices      == {100 * Unit, 110 * Unit}
TradeQuantities  == {5, 10}
TradeCommissions == {0, 1 * Unit}
TradeSlippages   == {0, Unit \div 10}
ExitReasons      == {"StopLoss", "TakeProfit", "SignalReverse", "EndOfData"}

\* trade_call for a call with the arguments given; price is the entry or
\* exit price of a direct call and the price the market quotes at an entry
\* or exit made by the replay, entry_price the one of the entry, and before
\* the trade as the call found it.
TradeCall(op, price, exit_reason, exit_commission, exit_slippage) ==
    [op |-> op, price |-> price, exit_reason |-> exit_reason,
     exit_commission |-> exit_commission, exit_slippage |-> exit_slippage,
     entry_price |-> IF op \in {"new", "enter"} THEN price ELSE trade_call.entry_price,
     before |-> backtest_trade]

\* trade_call before any call.
NoTradeCall ==
    [op |-> None, price |-> NoPrice, exit_reason |-> None, exit_commission |-> 0,
     exit_slippage |-> 0, entry_price |-> NoPrice, before |-> NoTrade]

Init_TR ==
    /\ \E cfg \in TradeBacktestConfigs : backtester = Backtester_new(cfg)
    /\ capital = 0 /\ equity_curve = <<>> /\ open_trades = <<>> /\ closed_trades = <<>>
    /\ total_signals = 0 /\ rejected_signals = 0 /\ bt_pc = None
    /\ backtest_trade = NoTrade
    /\ trade_call = NoTradeCall
    /\ RM_Idle /\ OM_Idle /\ PS_Idle /\ KC_Idle /\ AG_Idle /\ RUN_Idle /\ EN_Idle /\ FN_Idle

\* BacktestTrade::new(symbol, action, entry_price, quantity, .., commission, slippage, ..)
TR_new(action, entry_price, quantity, commission, slippage) ==
    /\ backtest_trade = NoTrade
    /\ backtest_trade' = BacktestTrade_new("AAPL", action, entry_price, quantity, 0,
                                           commission, slippage)
    /\ trade_call' = TradeCall("new", entry_price, None, 0, 0)
    /\ UNCHANGED <<rm_vars, om_vars, ps_vars, bt_vars, kc_vars, ag_vars, run_vars, en_vars, fn_vars>>

\* trade.close(exit_price, .., exit_reason, exit_commission, exit_slippage)
TR_close(exit_price, exit_reason, exit_commission, exit_slippage) ==
    /\ backtest_trade # NoTrade
    /\ is_open(backtest_trade)
    /\ trade_call.op = "new"
    /\ backtest_trade' = close(backtest_trade, exit_price, exit_reason,
                               exit_commission, exit_slippage)
    /\ trade_call' = TradeCall("close", exit_price, exit_reason, exit_commission, exit_slippage)
    /\ UNCHANGED <<rm_vars, om_vars, ps_vars, bt_vars, kc_vars, ag_vars, run_vars, en_vars, fn_vars>>

\* Backtester::run, "Execute trade": the entry of a position on a signal
\* with the action given, the market quoting mid.
TR_enter(action, mid, quantity) ==
    /\ backtest_trade = NoTrade
    /\ LET entry_price == apply_slippage(backtester, mid, FALSE)
           commission == backtester.config.commission_per_trade
           slippage == Abs(entry_price - mid)
       IN  backtest_trade' = BacktestTrade_new("AAPL", action, entry_price, quantity,
                                               0, commission, slippage)
    /\ trade_call' = TradeCall("enter", mid, None, 0, 0)
    /\ UNCHANGED <<rm_vars, om_vars, ps_vars, bt_vars, kc_vars, ag_vars, run_vars, en_vars, fn_vars>>

\* Backtester::run, "Check if we should close existing positions": the exit
\* of the position for the reason should_exit gave, the market quoting mid.
TR_exit(mid, exit_reason) ==
    /\ backtest_trade # NoTrade
    /\ is_open(backtest_trade)
    /\ trade_call.op = "enter"
    /\ LET exit_price == apply_slippage(backtester, mid, TRUE)
           exit_commission == backtester.config.commission_per_trade
           exit_slippage == Abs(exit_price - mid)
       IN  /\ backtest_trade' = close(backtest_trade, exit_price, exit_reason,
                                      exit_commission, exit_slippage)
           /\ trade_call' = TradeCall("exit", mid, exit_reason, exit_commission,
                                      exit_slippage)
    /\ UNCHANGED <<rm_vars, om_vars, ps_vars, bt_vars, kc_vars, ag_vars, run_vars, en_vars, fn_vars>>

Next_TR ==
    \/ \E action \in TradeActions, entry_price \in TradePrices,
          quantity \in TradeQuantities, commission \in TradeCommissions,
          slippage \in TradeSlippages :
            TR_new(action, entry_price, quantity, commission, slippage)
    \/ \E exit_price \in TradePrices, exit_reason \in ExitReasons,
          exit_commission \in TradeCommissions, exit_slippage \in TradeSlippages :
            TR_close(exit_price, exit_reason, exit_commission, exit_slippage)
    \/ \E action \in TradeActions, mid \in TradePrices, quantity \in TradeQuantities :
            TR_enter(action, mid, quantity)
    \/ \E mid \in TradePrices, exit_reason \in ExitReasons : TR_exit(mid, exit_reason)

SpecTR == Init_TR /\ [][Next_TR]_vars

(***************************************************************************)
(* The KellyCriterion driven on its own: any sequence of record_trade,     *)
(* kelly_pct and position_size calls.                                      *)
(***************************************************************************)
MaxKellyTrades == 5  \* trades recorded on one KellyCriterion

\* KellyConfig::default with a minimum trade count the model reaches: 2, the
\* 5 of test_kelly_calculation, and 2 with a minimum win rate of one half.
KellyConfigs ==
    { KellyConfig_fast,
      [KellyConfig_default EXCEPT !.min_trades_for_kelly = 5],
      [KellyConfig_default EXCEPT !.min_trades_for_kelly = 2, !.min_win_rate = 50] }

KellyPnls            == {-200, -100, 0, 200}
KellyPortfolioValues == {2500, 10000}
KellyConfidences     == {NoConfidence, 0, 50, 90, 100}

\* kelly_out when the call just made returned nothing.
NoSize ==
    [op |-> None, portfolio_value |-> 0, confidence |-> NoConfidence,
     some |-> FALSE, pct |-> <<0, 1>>, dollars |-> <<0, 1>>]

Init_KC ==
    /\ \E cfg \in KellyConfigs : kelly = KellyCriterion_with_config(cfg)
    /\ kelly_log = <<>>
    /\ kelly_out = NoSize
    /\ RM_Idle /\ OM_Idle /\ PS_Idle /\ BT_Idle /\ AG_Idle /\ TR_Idle /\ RUN_Idle /\ EN_Idle /\ FN_Idle

\* KellyCriterion::record_trade
KC_record_trade(pnl) ==
    /\ Len(kelly_log) < MaxKellyTrades
    /\ kelly' = [kelly EXCEPT !.stats = TradingStats_record_trade(kelly.stats, pnl)]
    /\ kelly_log' = Append(kelly_log, pnl)
    /\ kelly_out' = NoSize
    /\ UNCHANGED <<rm_vars, om_vars, ps_vars, bt_vars, ag_vars, tr_vars, run_vars, en_vars, fn_vars>>

KC_kelly_pct ==
    \E r \in {kelly_pct(kelly)} :
        /\ kelly_out' = [NoSize EXCEPT !.op = "kelly_pct", !.some = r.some, !.pct = r.pct]
        /\ UNCHANGED <<kelly, kelly_log, rm_vars, om_vars, ps_vars, bt_vars, ag_vars, tr_vars, run_vars, en_vars, fn_vars>>

KC_position_size(value, signal_confidence) ==
    /\ kelly_out' = [NoSize EXCEPT !.op = "position_size",
                                   !.portfolio_value = value,
                                   !.confidence = signal_confidence,
                                   !.dollars = position_size(kelly, value, signal_confidence)]
    /\ UNCHANGED <<kelly, kelly_log, rm_vars, om_vars, ps_vars, bt_vars, ag_vars, tr_vars, run_vars, en_vars, fn_vars>>

Next_KC ==
    \/ \E pnl \in KellyPnls : KC_record_trade(pnl)
    \/ KC_kelly_pct
    \/ \E value \in KellyPortfolioValues, signal_confidence \in KellyConfidences :
          KC_position_size(value, signal_confidence)

SpecKC == Init_KC /\ [][Next_KC]_vars

(***************************************************************************)
(* The SignalAggregator driven by the engine cycle: signals are collected  *)
(* into all_signals and aggregate is called on them, any number of times.  *)
(***************************************************************************)
MaxAllSignals == 3   \* signals collected into all_signals

Strategies     == {"HighestConfidence", "WeightedAverage", "Unanimous", "MajorityVote"}
MinConfidences == {50, 70}
AlphaSymbols     == {"AAPL", "MSFT"}
AlphaActions     == {"Buy", "Sell"}
AlphaConfidences == {50, 60, 80}

\* The signals the alphas generate.
AlphaSignals ==
    [symbol : AlphaSymbols, action : AlphaActions, confidence : AlphaConfidences]

\* The orders the maps of one aggregate call may be iterated in: one for the
\* by_symbol map and, for each symbol, one for the map of its actions.
IterationOrders(signals) ==
    [symbol_order : Orders(SymbolsOf(signals)),
     action_orders :
        { f \in [SymbolsOf(signals) ->
                    UNION { Orders(A) : A \in SUBSET ActionsOf(signals) }] :
            \A sym \in SymbolsOf(signals) :
                f[sym] \in Orders(ActionsOf(by_symbol(signals, sym))) }]

Init_AG ==
    /\ \E strategy \in Strategies, min_confidence \in MinConfidences :
          aggregator = with_min_confidence(SignalAggregator_new(strategy), min_confidence)
    /\ all_signals = <<>>
    /\ aggregated_signals = None
    /\ RM_Idle /\ OM_Idle /\ PS_Idle /\ BT_Idle /\ KC_Idle /\ TR_Idle /\ RUN_Idle /\ EN_Idle /\ FN_Idle

\* collect_signals: one more signal is put on all_signals.
AG_collect(signal) ==
    /\ Len(all_signals) < MaxAllSignals
    /\ all_signals' = Append(all_signals, signal)
    /\ aggregated_signals' = None
    /\ UNCHANGED <<aggregator, rm_vars, om_vars, ps_vars, bt_vars, kc_vars, tr_vars, run_vars, en_vars, fn_vars>>

\* aggregate(all_signals)
AG_aggregate ==
    /\ \E o \in IterationOrders(all_signals) :
          aggregated_signals' = aggregate(aggregator, all_signals,
                                          o.symbol_order, o.action_orders)
    /\ UNCHANGED <<aggregator, all_signals, rm_vars, om_vars, ps_vars, bt_vars, kc_vars, tr_vars, run_vars, en_vars, fn_vars>>

Next_AG ==
    \/ \E signal \in AlphaSignals : AG_collect(signal)
    \/ AG_aggregate

SpecAG == Init_AG /\ [][Next_AG]_vars

(***************************************************************************)
(* One Backtester::run call, a time step at a time, over historical data   *)
(* of at most MaxSteps time steps per symbol.                              *)
(***************************************************************************)
MaxSteps == 2   \* time steps of one symbol's series

RunSymbols == {"AAPL", "MSFT"}
RunPrices  == {8 * Unit, 9 * Unit}

\* The series of mid prices of one symbol.
Series == UNION { [1..n -> RunPrices] : n \in 0..MaxSteps }

\* historical_data: a series for some of the symbols, possibly for none.
HistoricalData == UNION { [D -> Series] : D \in SUBSET RunSymbols }

\* The signals an alpha generates.
RunAlphaSignals == [symbol : {"AAPL"}, action : {"Buy", "Sell"}, confidence : {80}]

\* An alpha, as what its generate_signals returns: nothing after reset, and
\* after update anything the alpha makes of the snapshot.
AlphaReset == [signals |-> <<>>]
AlphaUpdated == { [signals |-> sigs] : sigs \in {<<>>} \cup { <<x>> : x \in RunAlphaSignals } }

\* The locals of run as one value; idx is the time step the loop is at.
RunLocals ==
    [capital |-> capital, equity_curve |-> equity_curve, open_trades |-> open_trades,
     closed_trades |-> closed_trades, total_signals |-> total_signals,
     rejected_signals |-> rejected_signals, idx |-> run_i]

SetRun(st) ==
    /\ capital' = st.capital
    /\ equity_curve' = st.equity_curve
    /\ open_trades' = st.open_trades
    /\ closed_trades' = st.closed_trades
    /\ total_signals' = st.total_signals
    /\ rejected_signals' = st.rejected_signals

\* A Backtester of the default aggregation strategy with up to two alphas
\* added, and the arguments run is called with.
Init_RUN ==
    /\ \E cfg \in BacktestConfigs : backtester = Backtester_new(cfg)
    /\ aggregator = SignalAggregator_new("WeightedAverage")
    /\ \E n \in 0..2 : alphas = [k \in 1..n |-> AlphaReset]
    /\ historical_data \in HistoricalData
    /\ symbols \in {{"AAPL"}, RunSymbols}
    /\ all_signals = <<>> /\ aggregated_signals = None
    /\ capital = 0 /\ equity_curve = <<>> /\ open_trades = <<>> /\ closed_trades = <<>>
    /\ total_signals = 0 /\ rejected_signals = 0
    /\ run_i = 0
    /\ run_out = None
    /\ bt_pc = "start"
    /\ RM_Idle /\ OM_Idle /\ PS_Idle /\ KC_Idle /\ TR_Idle /\ EN_Idle /\ FN_Idle

\* run, up to the loop: the alphas are reset, the number of time steps is
\* taken, which fails for an empty map, and the locals are initialised.
RUN_start ==
    /\ bt_pc = "start"
    /\ alphas' = [k \in DOMAIN alphas |-> AlphaReset]
    /\ IF DOMAIN historical_data = {}
       THEN /\ run_out' = "Err"
            /\ bt_pc' = "returned"
            /\ UNCHANGED <<capital, equity_curve>>
       ELSE /\ capital' = backtester.config.initial_capital
            /\ equity_curve' = <<backtester.config.initial_capital>>
            /\ bt_pc' = "loop"
            /\ UNCHANGED run_out
    /\ UNCHANGED <<backtester, open_trades, closed_trades, total_signals, rejected_signals,
                   historical_data, symbols, run_i,
                   rm_vars, om_vars, ps_vars, kc_vars, ag_vars, tr_vars, en_vars, fn_vars>>

\* run, one time step: the snapshot is built, every alpha is updated with
\* it, all_signals is the empty Vec it was created as, and the step goes on
\* with the aggregate of it.
RUN_step ==
    /\ bt_pc = "loop"
    /\ run_i < min_data_points(historical_data)
    /\ alphas' \in [DOMAIN alphas -> AlphaUpdated]
    /\ \E collected \in {<<>>} :
         \E o \in IterationOrders(collected), order \in Orders(DOMAIN open_trades) :
           \E aggregated \in {aggregate(aggregator, collected,
                                        o.symbol_order, o.action_orders)} :
             /\ all_signals' = collected
             /\ aggregated_signals' = aggregated
             /\ SetRun(run_step(backtester, RunLocals,
                                market_snapshot(historical_data, symbols, run_i),
                                collected, aggregated, order))
    /\ run_i' = run_i + 1
    /\ UNCHANGED <<backtester, bt_pc, aggregator, historical_data, symbols, run_out,
                   rm_vars, om_vars, ps_vars, kc_vars, tr_vars, en_vars, fn_vars>>

\* run, after the loop: the remaining positions are closed, the metrics are
\* calculated and the result is returned.
RUN_return ==
    /\ bt_pc = "loop"
    /\ run_i = min_data_points(historical_data)
    /\ \E order \in Orders(DOMAIN open_trades) :
         SetRun(run_close_remaining(backtester, RunLocals, historical_data, order))
    /\ run_out' = "Ok"
    /\ bt_pc' = "returned"
    /\ UNCHANGED <<backtester, historical_data, symbols, alphas, run_i,
                   rm_vars, om_vars, ps_vars, kc_vars, ag_vars, tr_vars, en_vars, fn_vars>>

Next_RUN ==
    \/ RUN_start
    \/ RUN_step
    \/ RUN_return

SpecRUN == Init_RUN /\ [][Next_RUN]_vars

(***************************************************************************)
(* core/engine.rs: the TradingEngine, one tick of its interval at a time.  *)
(* The engine's OrderManager, SignalAggregator and alphas are the ones of  *)
(* the variables above; symbols holds config.symbols.                      *)
(***************************************************************************)
MaxTicks == 2   \* ticks of the interval TradingEngine::run processes

\* EngineStats::default
EngineStats_default ==
    [cycles_completed |-> 0, signals_generated |-> 0, signals_aggregated |-> 0,
     errors_encountered |-> 0]

\* EngineConfig::default, monitoring the symbols given.
EngineConfig_default(monitored) ==
    [symbols |-> monitored, min_confidence |-> 70,
     aggregation_strategy |-> "WeightedAverage", max_positions |-> 10,
     paper_trading |-> TRUE]

\* The OrderManagerConfig TradingEngine::new builds.
order_config(cfg) ==
    [max_positions |-> cfg.max_positions, max_risk_per_trade_pct |-> 50,
     paper_trading |-> cfg.paper_trading]

EngineSymbols == {"AAPL", "MSFT"}
EnginePrices  == {98, 100}

\* The last prices the provider quotes for a symbol.
EngineQuotes(symbol) == IF symbol = "AAPL" THEN EnginePrices ELSE {100}

EngineConfigs ==
    { EngineConfig_default(EngineSymbols),
      [EngineConfig_default(EngineSymbols) EXCEPT !.max_positions = 1] }

\* What fetch_market_data returns: an error, or the last price of each of
\* the symbols the provider has a quote for.
Fetched ==
    { [ok |-> FALSE, snapshot |-> <<>>] }
        \cup { [ok |-> TRUE, snapshot |-> snap] :
                  snap \in { q \in UNION { [D -> EnginePrices] :
                                              D \in SUBSET EngineSymbols } :
                               \A s \in DOMAIN q : q[s] \in EngineQuotes(s) } }

\* The signals an alpha of the engine generates.
EngineAlphaSignals ==
    [symbol : EngineSymbols, action : {"Buy"}, confidence : {80},
     stop_loss : {99}, take_profit : {NoPrice}]
        \cup { [symbol |-> "AAPL", action |-> "Buy", confidence |-> 80,
                stop_loss |-> NoPrice, take_profit |-> NoPrice],
               [symbol |-> "AAPL", action |-> "Close", confidence |-> 80,
                stop_loss |-> 99, take_profit |-> NoPrice] }

\* An alpha of the engine after update.
EngineAlphaUpdated ==
    { [signals |-> sigs] : sigs \in {<<>>} \cup { <<x>> : x \in EngineAlphaSignals } }

RECURSIVE collect_signals(_)
\* TradingEngine::collect_signals: the signals of every alpha, in turn.
collect_signals(as) ==
    IF as = <<>> THEN <<>> ELSE as[1].signals \o collect_signals(Tail(as))

\* Mutant: the loop over the aggregated signals ends at the first execution
\* that fails.
execute_signals_until_error(self, cfg, sz, snapshot, aggregated) ==
    LET first_try(r) ==
            [self |-> r.self,
             attempts |-> <<[symbol |-> aggregated[1].symbol, result |-> r.result,
                             error |-> r.error]>>]
    IN  IF aggregated = <<>> \/ aggregated[1].symbol \notin DOMAIN snapshot
        THEN [self |-> self, attempts |-> <<>>]
        ELSE first_try(execute_signal(self, cfg, sz, aggregated[1],
                                      snapshot[aggregated[1].symbol]))

RECURSIVE execute_signals(_, _, _, _, _)
\* run_cycle, step 7: each aggregated signal whose symbol has market data is
\* executed, an error being logged; [self, attempts], attempts being what
\* was logged for each signal.
execute_signals(self, cfg, sz, snapshot, aggregated) ==
    LET attempted(r, rest) ==
            [self |-> rest.self,
             attempts |-> <<[symbol |-> aggregated[1].symbol, result |-> r.result,
                             error |-> r.error]>> \o rest.attempts]
        then(r) == attempted(r, execute_signals(r.self, cfg, sz, snapshot,
                                                Tail(aggregated)))
    IN  IF aggregated = <<>> THEN [self |-> self, attempts |-> <<>>]
        ELSE IF aggregated[1].symbol \in DOMAIN snapshot
        THEN then(execute_signal(self, cfg, sz, aggregated[1],
                                 snapshot[aggregated[1].symbol]))
        ELSE then([self |-> self, result |-> "NoMarketData", error |-> None])

\* Mutant: every cycle is counted as completed, a failed one as an error too.
record_cycle_completed_always(stats, returned) ==
    IF returned = "Ok"
    THEN [stats EXCEPT !.cycles_completed = @ + 1]
    ELSE [stats EXCEPT !.cycles_completed = @ + 1, !.errors_encountered = @ + 1]

\* TradingEngine::run, the match on what run_cycle returned.
record_cycle(stats, returned) ==
    IF returned = "Ok"
    THEN [stats EXCEPT !.cycles_completed = @ + 1]
    ELSE [stats EXCEPT !.errors_encountered = @ + 1]

\* cycle_out before any cycle.
NoCycle ==
    [returned |-> None, snapshot |-> <<>>, held |-> <<>>, attempts |-> <<>>]

\* TradingEngine::new, with up to two alphas added.
Init_EN ==
    /\ \E cfg \in EngineConfigs :
         LET om == OrderManager_new(10000, order_config(cfg))
         IN  /\ aggregator = with_min_confidence(
                                 SignalAggregator_new(cfg.aggregation_strategy),
                                 cfg.min_confidence)
             /\ symbols = cfg.symbols
             /\ cash = om.cash
             /\ positions = om.positions
             /\ trade_history = om.trade_history
             /\ sizer = om.sizer
             /\ risk_manager = om.risk_manager
             /\ config = om.config
    /\ \E n \in 1..2 : alphas = [k \in 1..n |-> AlphaReset]
    /\ om_out = NoReturn("new")
    /\ rm_log = <<>> /\ rm_out = NoCheck
    /\ all_signals = <<>> /\ aggregated_signals = None
    /\ historical_data = <<>> /\ run_i = 0 /\ run_out = None
    /\ engine_stats = EngineStats_default
    /\ ticks = 0
    /\ cycle_out = NoCycle
    /\ PS_Idle /\ BT_Idle /\ KC_Idle /\ TR_Idle /\ FN_Idle

\* run_cycle after a fetch that succeeded, steps 2 to 8.
EN_cycle(snapshot) ==
    \E updated \in [DOMAIN alphas -> EngineAlphaUpdated] :
      \E collected \in {collect_signals(updated)},
         refreshed \in {update_positions(Self, snapshot)} :
        \E o \in IterationOrders(collected), order \in Orders(to_close(refreshed)) :
          \E aggregated \in {aggregate(aggregator, collected,
                                       o.symbol_order, o.action_orders)} :
            \E r \in {execute_signals(close_all(refreshed, order), config, sizer,
                                      snapshot, aggregated)} :
              /\ alphas' = updated
              /\ all_signals' = collected
              /\ aggregated_signals' = aggregated
              /\ SetSelf(r.self)
              /\ engine_stats' =
                    record_cycle([engine_stats EXCEPT
                                     !.signals_generated = @ + Len(collected),
                                     !.signals_aggregated = @ + Len(aggregated)],
                                 "Ok")
              /\ cycle_out' = [returned |-> "Ok", snapshot |-> snapshot,
                               held |-> positions, attempts |-> r.attempts]

\* TradingEngine::run, one iteration of its loop: a tick of the interval,
\* run_cycle, which fails if the fetch of the market data does, and the
\* count of what it returned.
EN_tick(fetched) ==
    /\ ticks < MaxTicks
    /\ ticks' = ticks + 1
    /\ IF fetched.ok
       THEN EN_cycle(fetched.snapshot)
       ELSE /\ engine_stats' = record_cycle(engine_stats, "Err")
            /\ cycle_out' = [NoCycle EXCEPT !.returned = "Err", !.held = positions]
            /\ UNCHANGED <<cash, positions, trade_history, risk_manager, alphas,
                           all_signals, aggregated_signals>>
    /\ om_out' = NoReturn("run_cycle")
    /\ UNCHANGED <<sizer, config, rm_log, rm_out, aggregator, historical_data, symbols,
                   run_i, run_out, ps_vars, bt_vars, kc_vars, tr_vars, fn_vars>>

Next_EN == \E fetched \in Fetched : EN_tick(fetched)

SpecEN == Init_EN /\ [][Next_EN]_vars

(***************************************************************************)
(* backtest/metrics.rs: calculate_max_drawdown.  A percentage is held as   *)
(* <<n, d>>, d > 0, standing for (n / d) * 100.0.                          *)
(***************************************************************************)
MaxCurve == 4   \* points of an equity curve

\* <<a, b>> < <<c, d>> as percentages, neither being positive.
DrawdownLT(x, y) == ~FracGE(-y[1], y[2], -x[1], x[2])

RECURSIVE max_drawdown_from_first(_, _, _)
\* Mutant: the peak stays the first point of the curve.
max_drawdown_from_first(equity_curve_, peak, max_drawdown) ==
    IF equity_curve_ = <<>> THEN max_drawdown
    ELSE LET drawdown == <<Head(equity_curve_) - peak, peak>>
         IN  max_drawdown_from_first(
                 Tail(equity_curve_), peak,
                 IF Head(equity_curve_) <= peak /\ DrawdownLT(drawdown, max_drawdown)
                 THEN drawdown ELSE max_drawdown)

RECURSIVE max_drawdown_loop(_, _, _)
\* The for loop of calculate_max_drawdown over what is left of the curve.
max_drawdown_loop(equity_curve_, peak, max_drawdown) ==
    IF equity_curve_ = <<>> THEN max_drawdown
    ELSE LET equity == Head(equity_curve_)
             new_peak == IF equity > peak THEN equity ELSE peak
             drawdown == <<equity - new_peak, new_peak>>
         IN  max_drawdown_loop(
                 Tail(equity_curve_), new_peak,
                 IF DrawdownLT(drawdown, max_drawdown) THEN drawdown ELSE max_drawdown)

\* calculate_max_drawdown, for a curve of positive equity.
calculate_max_drawdown(equity_curve_) ==
    IF equity_curve_ = <<>> THEN <<0, 1>>
    ELSE max_drawdown_loop(equity_curve_, equity_curve_[1], <<0, 1>>)

EquityValues == {9000, 10000, 11000}

\* The curve of test_max_drawdown.
TestCurve == <<10000, 11000, 10500, 9000, 9500, 12000>>

EquityCurves == UNION { [1..n -> EquityValues] : n \in 0..MaxCurve } \cup {TestCurve}

Init_MD ==
    /\ metrics_call = NoMetricsCall
    /\ quantity_call = NoQuantityCall
    /\ RM_Idle /\ OM_Idle /\ PS_Idle /\ BT_Idle /\ KC_Idle /\ AG_Idle /\ TR_Idle
    /\ RUN_Idle /\ EN_Idle

\* calculate_max_drawdown(curve)
MD_calculate_max_drawdown(curve) ==
    /\ metrics_call' = [equity_curve |-> curve, called |-> TRUE,
                        max_drawdown |-> calculate_max_drawdown(curve)]
    /\ UNCHANGED <<quantity_call, rm_vars, om_vars, ps_vars, bt_vars, kc_vars, ag_vars,
                   tr_vars, run_vars, en_vars>>

Next_MD == \E curve \in EquityCurves : MD_calculate_max_drawdown(curve)

SpecMD == Init_MD /\ [][Next_MD]_vars

(***************************************************************************)
(* types/price.rs: the constructors of Quantity(i64).                      *)
(***************************************************************************)
MaxShares == 40   \* the largest argument given to a constructor

\* `value as i64` of a u64 below 2^63, as the arguments followed are.
as_i64(value) == value

\* Quantity::new(value: i64) -> Result<Quantity, ValidationError>
Quantity_new(value) ==
    IF value = 0
    THEN [result |-> "InvalidQuantity", quantity |-> 0]
    ELSE [result |-> "Ok", quantity |-> value]

\* Quantity::buy(value: u64) -> Quantity
Quantity_buy(value) == [result |-> "Ok", quantity |-> as_i64(value)]

\* Quantity::sell(value: u64) -> Quantity
Quantity_sell(value) == [result |-> "Ok", quantity |-> -as_i64(value)]

\* What a call of a constructor leaves in quantity_call.
QuantityCall(op, value, r) ==
    [op |-> op, value |-> value, result |-> r.result, quantity |-> r.quantity]

Init_QT ==
    /\ quantity_call = NoQuantityCall
    /\ metrics_call = NoMetricsCall
    /\ RM_Idle /\ OM_Idle /\ PS_Idle /\ BT_Idle /\ KC_Idle /\ AG_Idle /\ TR_Idle
    /\ RUN_Idle /\ EN_Idle

QT_new(value) ==
    /\ quantity_call' = QuantityCall("new", value, Quantity_new(value))
    /\ UNCHANGED <<metrics_call, rm_vars, om_vars, ps_vars, bt_vars, kc_vars, ag_vars,
                   tr_vars, run_vars, en_vars>>

QT_buy(value) ==
    /\ quantity_call' = QuantityCall("buy", value, Quantity_buy(value))
    /\ UNCHANGED <<metrics_call, rm_vars, om_vars, ps_vars, bt_vars, kc_vars, ag_vars,
                   tr_vars, run_vars, en_vars>>

QT_sell(value) ==
    /\ quantity_call' = QuantityCall("sell", value, Quantity_sell(value))
    /\ UNCHANGED <<metrics_call, rm_vars, om_vars, ps_vars, bt_vars, kc_vars, ag_vars,
                   tr_vars, run_vars, en_vars>>

Next_QT ==
    \/ \E value \in -MaxShares..MaxShares : QT_new(value)
    \/ \E value \in 0..MaxShares : QT_buy(value)
    \/ \E value \in 0..MaxShares : QT_sell(value)

SpecQT == Init_QT /\ [][Next_QT]_vars

(***************************************************************************)
(* Claims about the Risk Manager (checked under SpecRM)                    *)
(***************************************************************************)
\* C4: check_trade never returns Approved while the current portfolio value is
\* less than or equal to the emergency-stop threshold, whatever the other
\* arguments and whatever calls came before.
C4_NoApprovalAtOrBelowFloor ==
    (/\ rm_out.result # None
     /\ risk_manager.current_value <= risk_manager.config.emergency_stop_value)
        => rm_out.result # "Approved"

\* A check made exactly at the floor, with the drawdown baseline re-anchored there
\* and arguments no other check objects to.
C4_Witness ==
    /\ rm_out.result # None
    /\ risk_manager.current_value = risk_manager.config.emergency_stop_value
    /\ risk_manager.day_start_value = risk_manager.current_value
    /\ risk_manager.current_value > 0
    /\ rm_out.result = "EmergencyStop"
    /\ rm_out.risk_amount = 20 /\ rm_out.position_value = 1000
    /\ rm_out.cash = 10000 /\ rm_out.max_positions = 10

\* The seven checks as the claim lists them, on the arguments of the last call.
C5_Fails(i) ==
    LET rm  == risk_manager
        cur == rm.current_value
        ds  == rm.day_start_value
        grp == UNION { correlation_groups[g] : g \in
                         { h \in DOMAIN correlation_groups :
                             rm_out.symbol \in correlation_groups[h] } }
        exposure == rm_out.position_value
                    + SumOver(rm_out.open_positions, grp \cap DOMAIN rm_out.open_positions)
    IN  CASE i = 1 -> cur <= rm.config.emergency_stop_value
          [] i = 2 -> ds > 0 /\ (ds - cur) * 10000 >= rm.config.max_daily_drawdown_pct * ds
          [] i = 3 -> rm.consecutive_losses >= rm.config.max_consecutive_losses
          [] i = 4 -> rm_out.risk_amount * 10000 > rm.config.max_risk_per_trade_pct * cur
          [] i = 5 -> Cardinality(DOMAIN rm_out.open_positions) >= rm_out.max_positions
          [] i = 6 -> rm_out.cash < rm_out.position_value
          [] i = 7 -> grp # {} /\ exposure * 10000 > rm.config.max_correlation_exposure_pct * cur

C5_Violations ==
    <<"EmergencyStop", "MaxDrawdownReached", "ConsecutiveLosses", "ExcessiveRisk",
      "MaxPositionsReached", "InsufficientCapital", "CorrelationExposure">>

\* C5: check_trade returns Approved iff none of the seven checks fails, and
\* otherwise Rejected with the violation of the lowest-numbered failing check.
C5_FirstFailingCheckReported ==
    rm_out.result # None =>
        LET failing == { i \in 1..7 : C5_Fails(i) }
        IN  IF failing = {}
            THEN rm_out.result = "Approved"
            ELSE \E i \in failing :
                    /\ \A j \in failing : i <= j
                    /\ rm_out.result = C5_Violations[i]

\* Position count, capital and correlation all fail; the position count is reported.
C5_Witness ==
    /\ rm_out.result # None
    /\ rm_out.result = "MaxPositionsReached"
    /\ C5_Fails(5) /\ C5_Fails(6) /\ C5_Fails(7)

RECURSIVE C6_TrailingRunLE0(_)
\* The claim's count: trailing record_trade calls with pnl <= 0 (other calls skipped).
C6_TrailingRunLE0(log) ==
    IF log = <<>> THEN 0
    ELSE LET last == log[Len(log)]
             rest == SubSeq(log, 1, Len(log) - 1)
         IN  IF last.op # "record_trade" THEN C6_TrailingRunLE0(rest)
             ELSE IF last.pnl <= 0 THEN 1 + C6_TrailingRunLE0(rest)
             ELSE 0

RECURSIVE C6_TrailingLosses(_)
\* Trailing record_trade calls with pnl < 0, ended by any other logged call.
C6_TrailingLosses(log) ==
    IF log = <<>> THEN 0
    ELSE LET last == log[Len(log)]
         IN  IF last.op = "record_trade" /\ last.pnl < 0
             THEN 1 + C6_TrailingLosses(SubSeq(log, 1, Len(log) - 1))
             ELSE 0

\* C6 as stated: the consecutive-loss counter equals the length of the trailing
\* run of record_trade(pnl <= 0) calls not interrupted by a record_trade(pnl > 0).
C6_CounterIsTrailingRunLE0 ==
    risk_manager.consecutive_losses = C6_TrailingRunLE0(rm_log)

\* C6 as amended: the counter equals the number of record_trade(pnl < 0) calls
\* made since the most recent record_trade(pnl >= 0) or reset_daily call.
C6_CounterIsTrailingLosses ==
    risk_manager.consecutive_losses = C6_TrailingLosses(rm_log)

\* A loss recorded right after a break-even trade: the counter is 1.
C6_Witness ==
    /\ Len(rm_log) >= 2
    /\ rm_log[Len(rm_log) - 1] = [op |-> "record_trade", pnl |-> 0]
    /\ rm_log[Len(rm_log)].op = "record_trade" /\ rm_log[Len(rm_log)].pnl < 0
    /\ risk_manager.consecutive_losses = 1

\* C7: record_trade(pnl) with pnl >= 0 sets the counter to zero, with pnl < 0
\* adds exactly one to it, and changes nothing else in the RiskManager.
C7_RecordTradeEffect ==
    [][ (/\ Len(rm_log') = Len(rm_log) + 1
         /\ rm_log'[Len(rm_log')].op = "record_trade")
        => risk_manager' =
             [risk_manager EXCEPT !.consecutive_losses =
                 IF rm_log'[Len(rm_log')].pnl >= 0 THEN 0 ELSE @ + 1] ]_vars

\* A break-even trade recorded after a loss, away from the day-start value:
\* the counter is back to zero.
C7_Witness ==
    /\ Len(rm_log) >= 2
    /\ rm_log[Len(rm_log) - 1].op = "record_trade" /\ rm_log[Len(rm_log) - 1].pnl < 0
    /\ rm_log[Len(rm_log)] = [op |-> "record_trade", pnl |-> 0]
    /\ risk_manager.consecutive_losses = 0
    /\ risk_manager.day_start_value # risk_manager.current_value

\* The last call logged is reset_daily, made by the step.
C33_ResetStep == rm_log' = Append(rm_log, [op |-> "reset_daily", pnl |-> 0])

\* The rejections reset_daily lifts.
C33_Daily == {"MaxDrawdownReached", "ConsecutiveLosses"}

\* C33: reset_daily sets the day-start value to the current portfolio value,
\* so that the daily drawdown is 0, and the consecutive-loss counter to 0,
\* and leaves the current value and the configuration unchanged; a trade
\* rejected for MaxDrawdownReached or ConsecutiveLosses just before it is
\* not rejected for either reason just after it.
C33_ResetDailyReanchors ==
    [][ C33_ResetStep =>
          /\ risk_manager'.day_start_value = risk_manager.current_value
          /\ risk_manager'.day_start_value - risk_manager'.current_value = 0
          /\ risk_manager'.consecutive_losses = 0
          /\ risk_manager'.current_value = risk_manager.current_value
          /\ risk_manager'.config = risk_manager.config
          /\ \A symbol \in CheckSymbols, position_value \in CheckPositionValues,
                risk_amount \in CheckRiskAmounts, open_positions \in CheckOpenPositions,
                max_positions \in CheckMaxPositions, available_cash \in CheckCash :
                  check_trade(risk_manager, symbol, position_value, risk_amount,
                              open_positions, max_positions, available_cash)
                      \in C33_Daily
                  => check_trade(risk_manager', symbol, position_value, risk_amount,
                                 open_positions, max_positions, available_cash)
                         \notin C33_Daily ]_vars

\* reset_daily was called after a loss had reached the limit of one loss in
\* a row: no loss is counted any more.
C33_Witness ==
    /\ Len(rm_log) = 2
    /\ rm_log[1] = [op |-> "record_trade", pnl |-> -50]
    /\ rm_log[2].op = "reset_daily"
    /\ risk_manager.config.max_consecutive_losses = 1
    /\ risk_manager.config.max_daily_drawdown_pct = 500
    /\ risk_manager.day_start_value = 9500
    /\ risk_manager.current_value = 9500
    /\ risk_manager.consecutive_losses = 0

(***************************************************************************)
(* Claims about the Order Manager (checked under SpecOM)                   *)
(***************************************************************************)
\* The call just made was an execute_signal that returned `result`.
Executed(result) == om_out.op = "execute_signal" /\ om_out.result = result

\* C1: there is at most one open position per symbol: an execute_signal for a
\* symbol that already has an open position returns an error and leaves the
\* open positions, the existing one included, exactly as they were.
C1_HeldSymbolIsRefused ==
    [][ (om_out'.op = "execute_signal" /\ om_out'.symbol \in DOMAIN positions)
            => /\ om_out'.result = "Err"
               /\ om_out'.error = "AlreadyHavePosition"
               /\ positions' = positions ]_vars

\* C1 witness: a signal for a held symbol has just been refused, the position
\* still open.
C1_Witness ==
    /\ Executed("Err")
    /\ om_out.error = "AlreadyHavePosition"
    /\ om_out.symbol \in DOMAIN positions

\* C2: the cash balance of an OrderManager created with non-negative cash is
\* never negative, after any sequence of calls.
C2_CashNeverNegative == cash >= 0

\* C2 witness: an opened position has committed all the cash there was.
C2_Witness ==
    /\ Executed("Ok")
    /\ DOMAIN positions # {}
    /\ cash = 0

\* C9: an execute_signal that returns an error leaves the cash balance, the
\* open positions and the closed-trade ledger exactly as they were before the
\* call.
C9_ErrorLeavesStateUntouched ==
    [][ (om_out'.op = "execute_signal" /\ om_out'.result = "Err")
            => /\ cash' = cash
               /\ positions' = positions
               /\ trade_history' = trade_history ]_vars

\* C9 witness: a signal whose action is neither Buy nor Sell has just been
\* refused, after sizing and the risk check had passed, by an OrderManager
\* that holds a position in another symbol.
C9_Witness ==
    /\ Executed("Err")
    /\ om_out.error = "InvalidAction"
    /\ DOMAIN positions # {}
    /\ cash > 0

\* C10: whenever execute_signal returns Ok, cash has been debited by
\* price x quantity + commission (the OrderManager has no commission setting:
\* the commission of its orders is zero), a Position for the signal's symbol
\* has been opened with entry price = current price and the signal's
\* stop-loss and take-profit, and the returned order is Filled, whatever
\* paper_trading is.
C10_OkMeansFilledAndDebited ==
    [][ (om_out'.op = "execute_signal" /\ om_out'.result = "Ok")
            => /\ cash' = cash - om_out'.price * om_out'.order.quantity
               /\ om_out'.symbol \in DOMAIN positions'
               /\ om_out'.symbol \notin DOMAIN positions
               /\ positions'[om_out'.symbol].entry_price = om_out'.price
               /\ positions'[om_out'.symbol].stop_loss = om_out'.signal.stop_loss
               /\ positions'[om_out'.symbol].take_profit = om_out'.signal.take_profit
               /\ om_out'.order.status = "Filled" ]_vars

\* The call just made was a check_exits.
Checked == om_out.op = "check_exits"

\* The Trade records the last check_exits returned for the symbol s.
ClosedFor(s) == { i \in 1..Len(om_out.closed) : om_out.closed[i].symbol = s }

RECURSIVE C12_Proceeds(_)
\* Sum of exit price x quantity over the Trade records ts.
C12_Proceeds(ts) ==
    IF ts = <<>> THEN 0
    ELSE ts[1].exit_price * ts[1].quantity + C12_Proceeds(Tail(ts))

RECURSIVE C12_Streak(_, _)
\* The consecutive-loss counter n after one record_trade per Trade record of ts.
C12_Streak(n, ts) ==
    IF ts = <<>> THEN n
    ELSE C12_Streak(IF ts[1].pnl < 0 THEN n + 1 ELSE 0, Tail(ts))

C13_RunningTotalMatchesRecomputed ==
    om_out.op \in {"execute_signal", "update_positions", "check_exits"}
        => risk_manager.current_value = portfolio_value(Self)

\* C14: a Buy signal with a valid stop-loss executed by a paper-trading
\* OrderManager with ample capital opens one position, whose value
\* (price x quantity) is within the configured maximum position percentage
\* (max_position_pct, 10 percent) of the portfolio value.
C14_OpenedWithinMaxPositionPct ==
    (Executed("Ok") /\ om_out.signal.action = "Buy" /\ config.paper_trading)
        => /\ DOMAIN positions = {om_out.symbol}
           /\ positions[om_out.symbol].entry_price * positions[om_out.symbol].quantity * 10000
                <= KellyConfig_default.max_position_pct * portfolio_value(Self)

\* C36: a Sell signal executed by execute_signal opens a short position: the
\* order returned has side Sell, the position opened has a negative quantity,
\* and its exits are those of a short: the stop-loss is hit when the price is
\* at or above the stop, the target when the price is at or below the target.
C36_SellOpensShort ==
    (Executed("Ok") /\ om_out.signal.action = "Sell")
        => /\ om_out.order.side = "Sell"
           /\ config.paper_trading =>
                \E position \in {positions[om_out.symbol]} :
                    /\ position.quantity < 0
                    /\ stop_loss_hit(position)
                         <=> (position.stop_loss # NoPrice
                                /\ position.current_price >= position.stop_loss)
                    /\ take_profit_hit(position)
                         <=> (position.take_profit # NoPrice
                                /\ position.current_price <= position.take_profit)

\* C40: the quantity execute_signal computes with its own sizer is within the
\* per-trade risk cap of the current portfolio value, in every state the
\* OrderManager reaches: no execute_signal is rejected with the
\* ExcessiveRisk violation.
C40_NeverExcessiveRisk ==
    om_out.op = "execute_signal" => om_out.error # "ExcessiveRisk"


(***************************************************************************)
(* Claims about a streak of losses (checked under SpecLS)                  *)
(***************************************************************************)
RECURSIVE C35_LossRun(_)
\* The positions closed at a loss in a row at the end of the log: since the
\* last position closed without a loss, or the last reset_daily.
C35_LossRun(log) ==
    IF log = <<>> THEN 0
    ELSE IF log[Len(log)].op = "record_trade" /\ log[Len(log)].pnl < 0
    THEN 1 + C35_LossRun(SubSeq(log, 1, Len(log) - 1))
    ELSE 0

\* max_consecutive_losses positions, or more, have been closed at a loss in a row.
C35_Locked == C35_LossRun(rm_log) >= risk_manager.config.max_consecutive_losses

\* C35: once max_consecutive_losses (3) positions have been closed at a loss
\* in a row, every execute_signal is rejected and no position is opened,
\* until a position still open is closed without a loss or reset_daily is
\* called; with no position open, only reset_daily ends the lockout.
C35_LossStreakLockout ==
    [][ C35_Locked =>
          /\ DOMAIN positions' \subseteq DOMAIN positions
          /\ om_out'.op = "execute_signal" =>
                /\ om_out'.result = "Err"
                /\ positions' = positions /\ cash' = cash
          /\ ~C35_Locked' =>
                \/ om_out'.op = "reset_daily"
                \/ /\ om_out'.op = "check_exits"
                   /\ positions # <<>>
                   /\ \E k \in DOMAIN om_out'.closed : om_out'.closed[k].pnl >= 0 ]_vars

\* Three positions in AAPL have been closed at a loss in a row while one in
\* MSFT stays open, and a signal for AAPL was rejected for the losses.
C35_Witness ==
    /\ Len(trade_history) = 3
    /\ \A k \in 1..3 : trade_history[k].symbol = "AAPL" /\ trade_history[k].pnl < 0
    /\ DOMAIN positions = {"MSFT"}
    /\ om_out.op = "execute_signal"
    /\ om_out.symbol = "AAPL"
    /\ om_out.error = "ConsecutiveLosses"

RECURSIVE C39_EntryValue(_, _)
\* Sum over the symbols S of entry_price * quantity.
C39_EntryValue(pos, S) ==
    IF S = {} THEN 0
    ELSE LET s == CHOOSE x \in S : TRUE
         IN  pos[s].entry_price * pos[s].quantity + C39_EntryValue(pos, S \ {s})

RECURSIVE C39_LedgerPnl(_)
\* Sum of the pnl of the Trade records.
C39_LedgerPnl(trades) ==
    IF trades = <<>> THEN 0
    ELSE trades[1].pnl + C39_LedgerPnl(Tail(trades))

\* The initial cash is what OrderManager::new gave its sizer as portfolio
\* value, which nothing changes afterwards.
C39_Identity ==
    cash + C39_EntryValue(positions, DOMAIN positions)
        = sizer.portfolio_value + C39_LedgerPnl(trade_history)

\* C39: in every state the OrderManager reaches, cash + the sum over the open
\* positions of entry price x quantity = initial cash + the sum of the pnl of
\* all Trade records of the ledger; execute_signal and check_exits leave
\* portfolio_value() unchanged, only update_positions changes it.
C39_AccountingIdentity ==
    /\ C39_Identity
    /\ [][ /\ C39_Identity'
           /\ portfolio_value(Self)' # portfolio_value(Self)
                => om_out'.op = "update_positions" ]_vars

\* Two positions have been closed, one with a gain and one with a loss, and a
\* third is open at a price that is not its entry price.
C39_Witness ==
    /\ Len(trade_history) = 2
    /\ \E j, k \in 1..2 : trade_history[j].pnl > 0 /\ trade_history[k].pnl < 0
    /\ \E s \in DOMAIN positions : positions[s].current_price # positions[s].entry_price
    /\ om_out.op = "check_exits" /\ om_out.closed # <<>>

(***************************************************************************)
(* Claims about the IntegratedPositionSizer (checked under SpecPS)         *)
(***************************************************************************)
\* q shares of the last calculate_position call risk no more than
\* max_risk_per_trade_pct percent of the portfolio value: q x |price - stop|
\* with a stop-loss, q x price x 2% without.
C8_WithinCap(q) ==
    LET cap == position_sizer.risk_manager.config.max_risk_per_trade_pct
                   * position_sizer.portfolio_value
    IN  IF ps_out.signal.stop_loss # NoPrice
        THEN q * risk_per_share(ps_out.signal, ps_out.current_price) * 10000 <= cap
        ELSE q * ps_out.current_price * 2 * 100 <= cap

\* C8: when the risk check rejects the Kelly-derived size for ExcessiveRisk,
\* calculate_position returns a Reduced decision whose quantity is the largest
\* whole number of shares within the per-trade risk cap, or the ExcessiveRisk
\* violation if that number is zero; when the risk check rejects it for any
\* other violation, it returns that violation and no size.
C8_ReducedToCapOrRejected ==
    /\ ps_out.risk_check = "ExcessiveRisk" =>
         \/ /\ ps_out.result = "Ok"
            /\ ps_out.approval_status = "Reduced"
            /\ ps_out.quantity >= 1
            /\ C8_WithinCap(ps_out.quantity)
            /\ ~C8_WithinCap(ps_out.quantity + 1)
         \/ /\ ps_out.result = "Err"
            /\ ps_out.violation = "ExcessiveRisk"
            /\ ~C8_WithinCap(1)
    /\ ps_out.risk_check \notin {None, "Approved", "ExcessiveRisk"} =>
         /\ ps_out.result = "Err"
         /\ ps_out.violation = ps_out.risk_check
         /\ ps_out.quantity = 0

\* C8 witness: a size rejected for ExcessiveRisk has been reduced to a
\* quantity that does not use the cap up exactly (the floor rounds).
C8_Witness ==
    /\ ps_out.risk_check = "ExcessiveRisk"
    /\ ps_out.approval_status = "Reduced"
    /\ ps_out.signal.stop_loss # NoPrice
    /\ ps_out.quantity * risk_per_share(ps_out.signal, ps_out.current_price) * 10000
         < position_sizer.risk_manager.config.max_risk_per_trade_pct
              * position_sizer.portfolio_value

\* C17: every decision calculate_position returns as Ok (Approved or
\* Reduced) has a quantity of at least one share.
C17_OkMeansAtLeastOneShare ==
    ps_out.result = "Ok" => ps_out.quantity >= 1

\* The decision calculate_position returns for a call.
C34_Decision(signal, current_price, c) ==
    calculate_position(position_sizer, signal, current_price, c.open_positions,
                       c.max_positions, c.cash)

\* The size returned passes the checks made after the one of the risk per
\* trade: the positions open are fewer than max_positions, the cash covers
\* the position value returned, and the correlation group's exposure with
\* that position stays within the cap.
C34_PassesLaterChecks(signal, current_price, c, quantity) ==
    /\ Cardinality(DOMAIN c.open_positions) < c.max_positions
    /\ ~insufficient_capital(c.cash, quantity * current_price)
    /\ ~check_correlation_exposure(position_sizer.risk_manager, signal.symbol,
                                   quantity * current_price, c.open_positions)

\* C34: every size calculate_position returns as Ok, a Reduced one included,
\* satisfies the risk checks for the position value returned: it is never
\* returned when the open positions have reached max_positions, when the
\* cash is below the position value returned, or when the position would
\* push the symbol's correlation group above the exposure cap.
C34_OkSatisfiesAllChecks ==
    \A signal \in SizerSignals, current_price \in SizerPrices, c \in SizerContexts :
        C34_Decision(signal, current_price, c).result = "Ok"
            => C34_PassesLaterChecks(signal, current_price, c,
                                     C34_Decision(signal, current_price, c).quantity)

(***************************************************************************)
(* Claims about the KellyCriterion (checked under SpecKC)                  *)
(***************************************************************************)
RECURSIVE C15_Count(_, _)
\* The number of trades of log that won (sign 1) or lost (sign -1).
C15_Count(log, sign) ==
    IF log = <<>> THEN 0
    ELSE (IF log[1] * sign > 0 THEN 1 ELSE 0) + C15_Count(Tail(log), sign)

RECURSIVE C15_Amount(_, _)
\* The sum of what the trades of log won (sign 1) or lost (sign -1).
C15_Amount(log, sign) ==
    IF log = <<>> THEN 0
    ELSE (IF log[1] * sign > 0 THEN log[1] * sign ELSE 0) + C15_Amount(Tail(log), sign)

\* 100 x kelly_fraction x (p*b - q)/b, in percent, for a log with a win and
\* a loss: p = wins / trades, q = 1 - p, b = average win / average loss.
C15_Kelly(log, kelly_fraction) ==
    LET wins == C15_Count(log, 1)
        losses == C15_Count(log, -1)
        p == Rat(wins, Len(log))
        q == Rat(p[2] - p[1], p[2])
        b == Rat(C15_Amount(log, 1) * losses, C15_Amount(log, -1) * wins)
        pb == Rat(p[1] * b[1], p[2] * b[2])
        edge == Rat(pb[1] * q[2] - q[1] * pb[2], pb[2] * q[2])
        raw == Rat(edge[1] * b[2], edge[2] * b[1])
    IN  Rat(raw[1] * kelly_fraction, raw[2])

\* C15: kelly_pct returns a value only when the trade count is at least
\* min_trades_for_kelly, a win and a loss have been recorded, the win rate is
\* at least min_win_rate and the scaled result is > 0; the value is then
\* 100 x kelly_fraction x (p*b - q)/b (3 wins of 200, 2 losses of 100 and
\* fraction 0.5 give 20); in every other case it returns None.
C15_KellyPctValue ==
    kelly_out.op = "kelly_pct" =>
        LET eligible ==
                /\ Len(kelly_log) >= kelly.config.min_trades_for_kelly
                /\ C15_Count(kelly_log, 1) >= 1
                /\ C15_Count(kelly_log, -1) >= 1
                /\ C15_Count(kelly_log, 1) * 100 >= kelly.config.min_win_rate * Len(kelly_log)
        IN  /\ kelly_out.some <=>
                (eligible /\ C15_Kelly(kelly_log, kelly.config.kelly_fraction)[1] > 0)
            /\ kelly_out.some =>
                kelly_out.pct = C15_Kelly(kelly_log, kelly.config.kelly_fraction)
            /\ ( /\ Len(kelly_log) = 5
                 /\ C15_Count(kelly_log, 1) = 3 /\ C15_Amount(kelly_log, 1) = 600
                 /\ C15_Count(kelly_log, -1) = 2 /\ C15_Amount(kelly_log, -1) = 200
                 /\ kelly.config.kelly_fraction = 50 )
                    => kelly_out.some /\ kelly_out.pct = <<20, 1>>

\* C15 witness: kelly_pct has just returned 20 for three wins of 200 and two
\* losses of 100 at half Kelly.
C15_Witness ==
    /\ kelly_out.op = "kelly_pct"
    /\ Len(kelly_log) = 5
    /\ C15_Count(kelly_log, 1) = 3 /\ C15_Amount(kelly_log, 1) = 600
    /\ C15_Count(kelly_log, -1) = 2 /\ C15_Amount(kelly_log, -1) = 200
    /\ kelly.config.min_trades_for_kelly = 5
    /\ kelly_out.some
    /\ kelly_out.pct = <<20, 1>>

\* The percentage position_size is to use, in basis points: kelly_pct() or
\* the default, times the confidence if one was supplied.
C16_AdjustedPct ==
    LET kp == kelly_pct(kelly)
        base == IF kp.some THEN Rat(kp.pct[1] * 100, kp.pct[2])
                ELSE <<kelly.config.default_position_pct, 1>>
    IN  IF kelly_out.confidence # NoConfidence
        THEN Rat(base[1] * kelly_out.confidence, base[2] * 100)
        ELSE base

\* C16: position_size takes kelly_pct() when it is available and the default
\* percentage otherwise, multiplies it by the confidence when one is
\* supplied, and the dollar amount it returns is that percentage of the
\* portfolio value, held between min_position_pct and max_position_pct
\* percent of the portfolio value.
C16_PositionSizeWithinCaps ==
    kelly_out.op = "position_size" =>
        LET pct == C16_AdjustedPct
            lo == kelly.config.min_position_pct
            hi == kelly.config.max_position_pct
            value == kelly_out.portfolio_value
            dollars == kelly_out.dollars
        IN  /\ dollars[1] * 10000 >= lo * value * dollars[2]
            /\ dollars[1] * 10000 <= hi * value * dollars[2]
            /\ (pct[1] >= lo * pct[2] /\ pct[1] <= hi * pct[2])
                  => dollars = Rat(pct[1] * value, pct[2] * 10000)
            /\ pct[1] < lo * pct[2] => dollars = Rat(lo * value, 10000)
            /\ pct[1] > hi * pct[2] => dollars = Rat(hi * value, 10000)

\* C16 witness: position_size has just returned max_position_pct percent of
\* the portfolio for a Kelly percentage that, scaled by the confidence
\* supplied, exceeds the cap.
C16_Witness ==
    /\ kelly_out.op = "position_size"
    /\ kelly_pct(kelly).some
    /\ kelly_out.confidence = 90
    /\ C16_AdjustedPct[1] > kelly.config.max_position_pct * C16_AdjustedPct[2]
    /\ kelly_out.dollars = <<kelly_out.portfolio_value \div 10, 1>>

(***************************************************************************)
(* Claims about the SignalAggregator (checked under SpecAG)                *)
(***************************************************************************)
\* The (symbol, action, confidence) results of an aggregate call.
ResultSet(result) == { result[i] : i \in 1..Len(result) }

\* C18: aggregate is a deterministic function of its input list: two calls
\* with the same strategy, the same minimum confidence and the same input
\* signals return the same set of (symbol, action, confidence) results.
C18_SameInputSameResult ==
    [][ (/\ aggregated_signals # None
         /\ aggregated_signals' # None
         /\ all_signals' = all_signals
         /\ aggregator' = aggregator)
            => ResultSet(aggregated_signals') = ResultSet(aggregated_signals) ]_vars

\* C19: under every strategy, every signal aggregate returns has a confidence
\* of at least the configured minimum, and a symbol whose signals are all
\* below the minimum has no signal returned for it.
C19_ResultsReachMinimum ==
    aggregated_signals # None =>
        /\ \A i \in 1..Len(aggregated_signals) :
              aggregated_signals[i].confidence[1]
                  >= aggregator.min_confidence * aggregated_signals[i].confidence[2]
        /\ \A sym \in SymbolsOf(all_signals) :
              (\A i \in 1..Len(all_signals) :
                    all_signals[i].symbol = sym
                        => all_signals[i].confidence < aggregator.min_confidence)
                 => \A i \in 1..Len(aggregated_signals) :
                        aggregated_signals[i].symbol # sym

\* C19 witness: aggregate has returned a signal for one symbol and none for
\* another, whose signals are below the minimum confidence.
C19_Witness ==
    /\ aggregated_signals # None
    /\ Len(aggregated_signals) = 1
    /\ \E i \in 1..Len(all_signals) :
          /\ all_signals[i].symbol # aggregated_signals[1].symbol
          /\ all_signals[i].confidence < aggregator.min_confidence

\* C20: under the Unanimous strategy aggregate returns no signal for a symbol
\* whose input signals do not all carry the same action, whatever their
\* confidences; when they all agree it returns one signal for the symbol,
\* with that action and the mean of their confidences, if that mean reaches
\* the minimum, and none if it does not.
C20_UnanimousOrNothing ==
    (aggregator.strategy = "Unanimous" /\ aggregated_signals # None) =>
        \A sym \in SymbolsOf(all_signals) :
            LET inputs == { i \in 1..Len(all_signals) : all_signals[i].symbol = sym }
                outputs == { i \in 1..Len(aggregated_signals) :
                                aggregated_signals[i].symbol = sym }
                agree == \A i, j \in inputs : all_signals[i].action = all_signals[j].action
                total == SumOver([i \in inputs |-> all_signals[i].confidence], inputs)
                n == Cardinality(inputs)
            IN  IF agree /\ total >= aggregator.min_confidence * n
                THEN /\ Cardinality(outputs) = 1
                     /\ \A o \in outputs :
                          /\ \A i \in inputs :
                                aggregated_signals[o].action = all_signals[i].action
                          /\ aggregated_signals[o].confidence[1] * n
                                = total * aggregated_signals[o].confidence[2]
                ELSE outputs = {}

\* C20 witness: under Unanimous, a symbol whose two signals disagree, each
\* with a confidence above the minimum, has no signal returned, while the
\* other symbol of the input has one.
C20_Witness ==
    /\ aggregator.strategy = "Unanimous"
    /\ aggregated_signals # None
    /\ Len(aggregated_signals) = 1
    /\ \E i, j \in 1..Len(all_signals) :
          /\ all_signals[i].symbol = all_signals[j].symbol
          /\ all_signals[i].symbol # aggregated_signals[1].symbol
          /\ all_signals[i].action # all_signals[j].action
          /\ all_signals[i].confidence > aggregator.min_confidence
          /\ all_signals[j].confidence > aggregator.min_confidence

\* The signals of all_signals for the symbol with the action, in their order.
C21_Group(sym, action) == by_action(by_symbol(all_signals, sym), action)

\* The actions of the symbol whose average confidence reaches the minimum.
C21_Qualifying(sym) ==
    { a \in ActionsOf(by_symbol(all_signals, sym)) :
        SumConfidence(C21_Group(sym, a))
            >= aggregator.min_confidence * Len(C21_Group(sym, a)) }

\* C21: under the WeightedAverage strategy, for each symbol aggregate groups
\* the signals by action and averages the confidence within each group; it
\* returns one signal for the symbol, whose action is a group of the highest
\* average among the groups at or above the minimum and whose confidence is
\* that average, and no signal when no group reaches the minimum.
C21_HighestAverageGroup ==
    (aggregator.strategy = "WeightedAverage" /\ aggregated_signals # None) =>
        \A sym \in SymbolsOf(all_signals) :
            LET outputs == { i \in 1..Len(aggregated_signals) :
                                aggregated_signals[i].symbol = sym }
            IN  IF C21_Qualifying(sym) = {} THEN outputs = {}
                ELSE /\ Cardinality(outputs) = 1
                     /\ \A o \in outputs :
                          LET out == aggregated_signals[o]
                              mine == C21_Group(sym, out.action)
                          IN  /\ out.action \in C21_Qualifying(sym)
                              /\ out.confidence[1] * Len(mine)
                                    = SumConfidence(mine) * out.confidence[2]
                              /\ \A a \in C21_Qualifying(sym) :
                                    SumConfidence(C21_Group(sym, a)) * Len(mine)
                                        <= SumConfidence(mine) * Len(C21_Group(sym, a))

\* C21 witness: the inputs Buy at 0.8, Buy at 0.6 and Sell at 0.5 for one
\* symbol, with the minimum 0.5, have given one Buy signal at 0.70.
C21_Witness ==
    /\ aggregator.strategy = "WeightedAverage"
    /\ aggregator.min_confidence = 50
    /\ all_signals = << [symbol |-> "AAPL", action |-> "Buy", confidence |-> 80],
                        [symbol |-> "AAPL", action |-> "Buy", confidence |-> 60],
                        [symbol |-> "AAPL", action |-> "Sell", confidence |-> 50] >>
    /\ aggregated_signals # None
    /\ Len(aggregated_signals) = 1
    /\ aggregated_signals[1].symbol = "AAPL"
    /\ aggregated_signals[1].action = "Buy"
    /\ aggregated_signals[1].confidence[1] = 70 * aggregated_signals[1].confidence[2]

(***************************************************************************)
(* Claims about one BacktestTrade (checked under SpecTR)                   *)
(***************************************************************************)
\* The last call on backtest_trade closed it.
Closed == trade_call.op \in {"close", "exit"}

\* C22: closing a backtest trade yields net P&L = gross - (entry commission +
\* exit commission) - (entry slippage + exit slippage), where gross is
\* (exit - entry) x quantity for a Buy trade and (entry - exit) x quantity
\* for a Sell trade; the trade is open exactly until close is called, and
\* afterwards carries the one exit reason close was given.
C22_NetIsGrossLessCosts ==
    /\ trade_call.op \in {"new", "enter"} =>
          /\ is_open(backtest_trade)
          /\ backtest_trade.exit_reason = None
    /\ Closed =>
          LET t == backtest_trade
              entry == trade_call.before
              gross == IF t.action = "Buy" THEN (t.exit_price - t.entry_price) * t.quantity
                       ELSE (t.entry_price - t.exit_price) * t.quantity
          IN  /\ ~is_open(t)
              /\ t.exit_reason = trade_call.exit_reason
              /\ t.exit_reason \in ExitReasons
              /\ t.entry_price = entry.entry_price /\ t.quantity = entry.quantity
              /\ trade_call.op = "close" => t.exit_price = trade_call.price
              /\ t.action \in {"Buy", "Sell"} =>
                    /\ t.gross_pnl = gross
                    /\ t.net_pnl = gross - (entry.commission + trade_call.exit_commission)
                                        - (entry.slippage + trade_call.exit_slippage)

\* C22 witness: a Buy of 10 shares at 100 dollars, with a commission of 1
\* dollar and a slippage of 0.1 on each side, has been closed at 110 dollars
\* with a net P&L of 97.8 dollars.
C22_Witness ==
    /\ trade_call.op = "close"
    /\ trade_call.before = BacktestTrade_new("AAPL", "Buy", 100 * Unit, 10, 0,
                                             1 * Unit, Unit \div 10)
    /\ trade_call.exit_commission = 1 * Unit
    /\ trade_call.exit_slippage = Unit \div 10
    /\ backtest_trade.exit_price = 110 * Unit
    /\ backtest_trade.gross_pnl = 100 * Unit
    /\ 10 * backtest_trade.net_pnl = 978 * Unit

\* C28: slippage always moves the execution price against the trader: for a
\* Buy trade the entry price is not below and the exit price not above the
\* quoted price, for a Sell trade the entry price is not above and the exit
\* price not below the quoted price, so that the gross P&L of a trade is
\* never better than its gross P&L at the quoted prices.
C28_SlippageAgainstTrader ==
    trade_call.op \in {"enter", "exit"} =>
        LET t == backtest_trade
            quoted_entry == trade_call.entry_price
            quoted_exit == trade_call.price
        IN  /\ t.action = "Buy" => t.entry_price >= quoted_entry
            /\ t.action = "Sell" => t.entry_price <= quoted_entry
            /\ (trade_call.op = "exit" /\ t.action = "Buy") =>
                  /\ t.exit_price <= quoted_exit
                  /\ t.gross_pnl <= (quoted_exit - quoted_entry) * t.quantity
            /\ (trade_call.op = "exit" /\ t.action = "Sell") =>
                  /\ t.exit_price >= quoted_exit
                  /\ t.gross_pnl <= (quoted_entry - quoted_exit) * t.quantity

(***************************************************************************)
(* Claims about Backtester::run (checked under SpecRUN)                    *)
(***************************************************************************)
\* C25: Backtester::run returns an error when no historical data exists for
\* any symbol and also when fewer than two time steps are available, the
\* shortest series having 0 or 1 steps; in every other case it returns a
\* result.
C25_ErrorIffTooFewSteps ==
    bt_pc = "returned" =>
        (run_out = "Err" <=>
            (\/ DOMAIN historical_data = {}
             \/ min_data_points(historical_data) < 2))

RECURSIVE C26_Raw(_)
\* The raw signals the alphas generate, one alpha after the other.
C26_Raw(as) ==
    IF as = <<>> THEN <<>> ELSE as[1].signals \o C26_Raw(Tail(as))

\* C26: in every step of Backtester::run the snapshot is fed to every
\* registered alpha and the raw signals the alphas generate are collected,
\* aggregated and considered for entry; total_signals grows by the number of
\* raw signals the alphas generated in the step.
C26_RawSignalsCollected ==
    [][ run_i' = run_i + 1 =>
            /\ all_signals' = C26_Raw(alphas')
            /\ total_signals' = total_signals + Len(C26_Raw(alphas')) ]_vars

(***************************************************************************)
(* Claims about the backtest replay (checked under SpecBT)                 *)
(***************************************************************************)
\* C3: during a backtest replay the running capital is never negative, at
\* any step and for every sequence of entries and closes, and neither is the
\* final_capital the replay reports.
C3_CapitalNeverNegative == capital >= 0

\* A trade of the replay is known by its symbol and the step it was entered at.
TradeKey(t) == <<t.symbol, t.entry_time>>

\* The keys of the trades in the map of open trades and in the list of
\* closed trades.
OpenKeys(m) == { TradeKey(m[s]) : s \in DOMAIN m }
ClosedKeys(l) == { TradeKey(l[k]) : k \in 1..Len(l) }

\* C23: when a backtest replay returns, every trade opened during the replay
\* appears exactly once in the result's trade list and is closed; every
\* position still open after the last step has been closed with the exit
\* reason EndOfData, so that no open trade remains and as many trades are
\* returned as positions were opened.
C23_EveryOpenedTradeReturnedClosed ==
    /\ [](/\ \A s \in DOMAIN open_trades : is_open(open_trades[s])
          /\ \A k \in 1..Len(closed_trades) :
                /\ ~is_open(closed_trades[k])
                /\ closed_trades[k].exit_reason \in ExitReasons
                /\ TradeKey(closed_trades[k]) \notin OpenKeys(open_trades)
                /\ \A j \in 1..Len(closed_trades) :
                      TradeKey(closed_trades[j]) = TradeKey(closed_trades[k]) => j = k
          /\ bt_pc = "returned" => open_trades = <<>>)
    /\ [][ /\ OpenKeys(open_trades) \cup ClosedKeys(closed_trades)
                \subseteq OpenKeys(open_trades') \cup ClosedKeys(closed_trades')
           /\ SubSeq(closed_trades', 1, Len(closed_trades)) = closed_trades
           /\ bt_pc' = "returned" =>
                \A k \in (Len(closed_trades) + 1)..Len(closed_trades') :
                    /\ closed_trades'[k].exit_reason = "EndOfData"
                    /\ TradeKey(closed_trades'[k]) \in OpenKeys(open_trades) ]_vars

\* C23 witness: the replay has returned three trades, one closed on a later
\* signal for its symbol and two closed at the end of the data.
C23_Witness ==
    /\ bt_pc = "returned"
    /\ Len(closed_trades) = 3
    /\ closed_trades[1].exit_reason = "SignalReverse"
    /\ closed_trades[2].exit_reason = "EndOfData"
    /\ closed_trades[3].exit_reason = "EndOfData"
    /\ open_trades = <<>>

\* C24: the equity curve a backtest replay returns contains one value per
\* replayed time step, the value of the end of that step, after the initial
\* capital the curve starts with.
C24_OneValuePerStep ==
    bt_pc = "returned" => Len(equity_curve) = 1 + total_signals

\* The realized P&L of the trades closed so far.
C27_Realized ==
    SumOver([k \in 1..Len(closed_trades) |-> closed_trades[k].net_pnl],
            1..Len(closed_trades))

\* The Risk Manager's breakers as the closed trades set them: the last
\* max_consecutive_losses closed trades all lost, or, no position being
\* open, the realized losses reach max_daily_drawdown_pct of the capital
\* the day started with.
C27_Tripped ==
    LET rc == backtester.config.risk_config
        n == Len(closed_trades)
    IN  \/ /\ n >= rc.max_consecutive_losses
           /\ \A k \in (n - rc.max_consecutive_losses + 1)..n :
                 closed_trades[k].net_pnl < 0
        \/ /\ open_trades = <<>>
           /\ C27_Realized < 0
           /\ PctGE(-C27_Realized, backtester.config.initial_capital,
                    rc.max_daily_drawdown_pct)

\* C27: during a backtest replay the Risk Manager is informed of every closed
\* trade's realized P&L and of the changed portfolio value before later
\* signals are checked: after max_consecutive_losses consecutive losing
\* closed trades, or after equity has fallen by max_daily_drawdown_pct from
\* the day start, a later signal opens no position.
C27_NoEntryAfterBreaker ==
    [][ (bt_pc = "loop" /\ C27_Tripped)
            => OpenKeys(open_trades') \subseteq OpenKeys(open_trades) ]_vars

\* C37: in a backtest replay a signal whose action is that of the position
\* open on its symbol leaves the position open and unchanged, the symbol being
\* held already; a position is closed with reason SignalReverse only by a
\* signal for its symbol with the opposing action.
C37_SameActionKeepsPosition ==
    [][ \A signal \in BacktestSignals :
          ( /\ BT_signal(signal)
            /\ signal.symbol \in DOMAIN open_trades
            /\ signal.action = open_trades[signal.symbol].action )
          => /\ signal.symbol \in DOMAIN open_trades'
             /\ open_trades'[signal.symbol] = open_trades[signal.symbol]
             /\ closed_trades' = closed_trades ]_vars

\* C38: when a backtest replay returns, all positions closed, final_capital
\* equals initial_capital plus the sum of net_pnl over the trades returned; a
\* position opened and closed at the same price with no commission and no
\* slippage leaves the capital unchanged.
C38_CashConserved ==
    bt_pc = "returned"
        => capital = backtester.config.initial_capital
                        + SumOver([k \in 1..Len(closed_trades) |-> closed_trades[k].net_pnl],
                                  1..Len(closed_trades))

\* The replay's amounts stay whole: the capital is a whole number of cents,
\* so the hundredths taken of it and of its tenth leave no remainder.
BT_AmountsWhole == capital % 1000 = 0

(***************************************************************************)
(* Claims about the TradingEngine (checked under SpecEN)                   *)
(***************************************************************************)
\* A tick has been processed by the step.
EN_Ticked == ticks' = ticks + 1

\* C29: a cycle that fails, the fetch of the market data having failed,
\* adds exactly one to errors_encountered, nothing to cycles_completed, and
\* leaves the OrderManager's cash, positions, trade history and risk
\* counters as they were; a cycle that succeeds adds exactly one to
\* cycles_completed; so cycles_completed + errors_encountered is always the
\* number of ticks processed.
C29_FailedCycleCountedOnly ==
    /\ [](engine_stats.cycles_completed + engine_stats.errors_encountered = ticks)
    /\ [][ EN_Ticked =>
             IF cycle_out'.returned = "Err"
             THEN /\ engine_stats'.errors_encountered
                        = engine_stats.errors_encountered + 1
                  /\ engine_stats'.cycles_completed = engine_stats.cycles_completed
                  /\ UNCHANGED <<cash, positions, trade_history, risk_manager>>
             ELSE /\ engine_stats'.cycles_completed
                        = engine_stats.cycles_completed + 1
                  /\ engine_stats'.errors_encountered
                        = engine_stats.errors_encountered ]_vars

\* A cycle failed after one that had opened a position.
C29_Witness ==
    /\ ticks = 2
    /\ cycle_out.returned = "Err"
    /\ positions # <<>>
    /\ engine_stats.cycles_completed = 1
    /\ engine_stats.errors_encountered = 1

\* The executions the last cycle logged as failed, for want of market data
\* or rejected by the OrderManager.
C30_Failed == { k \in DOMAIN cycle_out.attempts : cycle_out.attempts[k].result # "Ok" }

\* C30: a cycle in which the execution of an aggregated signal fails still
\* attempts every aggregated signal of the cycle, in turn, and completes.
C30_ErrorDoesNotAbortCycle ==
    /\ [](C30_Failed # {} =>
             /\ cycle_out.returned = "Ok"
             /\ Len(cycle_out.attempts) = Len(aggregated_signals)
             /\ \A k \in DOMAIN cycle_out.attempts :
                   /\ cycle_out.attempts[k].symbol = aggregated_signals[k].symbol
                   /\ cycle_out.attempts[k].result = "Ok"
                         => aggregated_signals[k].symbol \in DOMAIN positions)
    /\ [][ (EN_Ticked /\ \E k \in DOMAIN cycle_out'.attempts :
                              cycle_out'.attempts[k].result # "Ok")
             => engine_stats'.cycles_completed
                    = engine_stats.cycles_completed + 1 ]_vars

\* The first aggregated signal of a cycle was rejected and the second, of
\* another symbol, executed: its position is open.
C30_Witness ==
    /\ Len(cycle_out.attempts) = 2
    /\ cycle_out.attempts[1].result = "Err"
    /\ cycle_out.attempts[2].result = "Ok"
    /\ cycle_out.attempts[2].symbol \in DOMAIN positions
    /\ cycle_out.attempts[2].symbol \notin DOMAIN cycle_out.held

(***************************************************************************)
(* Claims about calculate_max_drawdown (checked under SpecMD)              *)
(***************************************************************************)
\* The maximum equity of the first k points of the curve.
C31_RunningPeak(curve, k) ==
    CHOOSE p \in { curve[j] : j \in 1..k } : \A j \in 1..k : curve[j] <= p

\* (equity - running peak) / running peak at point k, as a percentage.
C31_DrawdownAt(curve, k) ==
    <<curve[k] - C31_RunningPeak(curve, k), C31_RunningPeak(curve, k)>>

\* Two percentages are the same number.
C31_Same(x, y) == x[1] * y[2] = y[1] * x[2]

\* C31: calculate_max_drawdown returns the minimum over the points of the
\* curve of (equity - running peak) / running peak x 100; the result is never
\* positive, is 0 for an empty or non-decreasing curve, and is about -18.18
\* for [10000, 11000, 10500, 9000, 9500, 12000].
C31_MaxDrawdownIsMinimum ==
    metrics_call.called =>
        LET curve == metrics_call.equity_curve
            r == metrics_call.max_drawdown
        IN  /\ r[2] > 0 /\ r[1] <= 0
            /\ curve = <<>> => r[1] = 0
            /\ curve # <<>> =>
                  /\ \E k \in DOMAIN curve : C31_Same(r, C31_DrawdownAt(curve, k))
                  /\ \A k \in DOMAIN curve : ~DrawdownLT(C31_DrawdownAt(curve, k), r)
            /\ (\A k \in DOMAIN curve : k > 1 => curve[k - 1] <= curve[k]) => r[1] = 0
            /\ curve = TestCurve =>
                  /\ -r[1] * 10000 > 1817 * r[2]
                  /\ -r[1] * 10000 < 1819 * r[2]

\* The drawdown of the test's curve has been calculated: 2000 below the
\* peak of 11000.
C31_Witness ==
    /\ metrics_call.called
    /\ metrics_call.equity_curve = TestCurve
    /\ metrics_call.max_drawdown = <<-2000, 11000>>

(***************************************************************************)
(* Claims about Quantity (checked under SpecQT)                            *)
(***************************************************************************)
\* C32: no Quantity of value zero can be constructed: new, buy and sell each
\* yield a nonzero quantity or fail with a validation error, buy yielding a
\* positive and sell a negative quantity for every argument.
C32_NoZeroQuantity ==
    quantity_call.result = "Ok" =>
        /\ quantity_call.quantity # 0
        /\ quantity_call.op = "buy" => quantity_call.quantity > 0
        /\ quantity_call.op = "sell" => quantity_call.quantity < 0

====
